---------------------------- MODULE Spec2Model ----------------------------
(***************************************************************************)
(* tr2loop: detection of tail-recursive Python functions and their         *)
(* rewriting into `while True` loops.                                      *)
(*                                                                         *)
(*   src/tr2loop/tail_analysis.py   TailRecursionAnalyzer (block analysis) *)
(*   src/tr2loop/tail_transform.py  is_tail_recursive (the gate),          *)
(*                                  TailTransformer, transform_tail_       *)
(*                                  recursion, analyze_and_transform       *)
(*                                                                         *)
(* Syntax trees are records tagged by k, the name of the Python ast class. *)
(* A field name always holds values of one shape, so that any two nodes    *)
(* can be compared.  Operator nodes (ast.Sub, ast.LtE, ...) and expression *)
(* contexts are kept as strings: no code of the program inspects them.     *)
(***************************************************************************)
EXTENDS Integers, Sequences, FiniteSets, TLC

(***************************************************************************)
(* Syntax tree constructors (the subset of Python's ast the program can    *)
(* tell apart).                                                            *)
(***************************************************************************)
NoneNode == [k |-> "None"]

Name(id) == [k |-> "Name", id |-> id, ctx |-> "Load"]

NameStore(id) == [k |-> "Name", id |-> id, ctx |-> "Store"]

ConstInt(v) == [k |-> "Constant", t |-> "int", v |-> v]

ConstTrue == [k |-> "Constant", t |-> "bool", v |-> 1]

BinOp(l, op, r) == [k |-> "BinOp", left |-> l, op |-> op, right |-> r]

Compare(l, op, r) == [k |-> "Compare", left |-> l, op |-> op, right |-> r]

Attribute(value, attr) == [k |-> "Attribute", value |-> value, attr |-> attr]

TupleNode(elts, ctx) == [k |-> "Tuple", elts |-> elts, ctx |-> ctx]

Keyword(arg, value) == [k |-> "keyword", arg |-> arg, value |-> value]

Call(func, args, keywords) ==
    [k |-> "Call", func |-> func, args |-> args, keywords |-> keywords]

Return(value) == [k |-> "Return", value |-> value]

\* If, While, For, Try, With, Match: a header expression (NoneNode when the
\* construct has none), a body and an else part.
Compound(kind, test, body, orelse) ==
    [k |-> kind, test |-> test, body |-> body, orelse |-> orelse]

If(test, body, orelse) == Compound("If", test, body, orelse)

Assign(target, value) == [k |-> "Assign", target |-> target, value |-> value]

ExprStmt(value) == [k |-> "Expr", value |-> value]

Continue == [k |-> "Continue"]

FunctionDef(name, params, defaults, body) ==
    [k |-> "FunctionDef", name |-> name, params |-> params,
     defaults |-> defaults, body |-> body]

LoopKinds == {"While", "For", "Try", "With", "Match"}

CompoundKinds == LoopKinds \cup {"If"}

(***************************************************************************)
(* ast.iter_child_nodes and ast.walk.                                      *)
(***************************************************************************)
Opt(e) == IF e.k = "None" THEN <<>> ELSE <<e>>

\* ast.iter_child_nodes: the child nodes of a node, in field order.
Children(node) ==
    CASE node.k = "FunctionDef" -> node.defaults \o node.body
      [] node.k = "Return"      -> Opt(node.value)
      [] node.k \in CompoundKinds -> Opt(node.test) \o node.body \o node.orelse
      [] node.k = "Assign"      -> <<node.target, node.value>>
      [] node.k = "Expr"        -> <<node.value>>
      [] node.k = "Call"        -> <<node.func>> \o node.args \o node.keywords
      [] node.k = "keyword"     -> <<node.value>>
      [] node.k \in {"BinOp", "Compare"} -> <<node.left, node.right>>
      [] node.k = "Attribute"   -> <<node.value>>
      [] node.k = "Tuple"       -> node.elts
      [] OTHER                  -> <<>>

RECURSIVE WalkQueue(_)
\* ast.walk's loop: pop the queue's head, push its children at the end.
WalkQueue(todo) ==
    IF todo = <<>> THEN <<>>
    ELSE <<Head(todo)>> \o WalkQueue(Tail(todo) \o Children(Head(todo)))

\* ast.walk(node): every node of the subtree, breadth first.
Walk(node) == WalkQueue(<<node>>)

\* A node paired with the class of the node attach_parents made its parent.
WithParent(node, pk) == [node |-> node, parent |-> pk]

ChildrenWithParent(node) ==
    [j \in 1..Len(Children(node)) |-> WithParent(Children(node)[j], node.k)]

RECURSIVE WalkParentsQueue(_)
WalkParentsQueue(todo) ==
    IF todo = <<>> THEN <<>>
    ELSE <<Head(todo)>>
         \o WalkParentsQueue(Tail(todo) \o ChildrenWithParent(Head(todo).node))

\* attach_parents(module) followed by ast.walk(func): every node of a
\* top-level function with its parent's class (the function's is the Module).
WalkParents(func) == WalkParentsQueue(<<WithParent(func, "Module")>>)

(***************************************************************************)
(* tail_analysis.py: TailRecursionAnalyzer.                                *)
(***************************************************************************)
ReasonReturnExpr == "Self-call detecte dans l'expression de retour -> non terminal"

ReasonStructure(kind) == "Structure " \o kind \o " detectee : analyse V1 conservatrice"

ReasonGeneric(fname, kind) ==
    "Auto-appel a " \o fname \o " trouve hors return, statement " \o kind

ReasonNonTail == "Auto-appel detecte hors position terminale"

ReasonNoReturn ==
    "Tous les chemins n'aboutissent pas a un return"

ReasonNotRecursive == "Pas d'auto-appel detecte, fonction non recursive"

\* A test that also takes a method of the function's name, obj.f(...).
IsNamedLikeFunction(func_node, fname) ==
    \/ func_node.k = "Name" /\ func_node.id = fname
    \/ func_node.k = "Attribute" /\ func_node.attr = fname

\* _is_self_call(func_node): a bare name equal to the analysed function's.
is_self_call(func_node, fname) == func_node.k = "Name" /\ func_node.id = fname

\* The test both subtree searches apply to each node ast.walk yields.
IsSelfCallNode(sub, fname) == sub.k = "Call" /\ is_self_call(sub.func, fname)

\* A search that looks at the node and at its children, no deeper.
ContainsAmongChildren(node, fname) ==
    \/ IsSelfCallNode(node, fname)
    \/ \E j \in 1..Len(Children(node)) : IsSelfCallNode(Children(node)[j], fname)

\* _contains_self_call(node)
contains_self_call(node, fname) ==
    LET w == Walk(node) IN \E j \in 1..Len(w) : IsSelfCallNode(w[j], fname)

\* A search that counts the self-calls it finds as tail calls.
ScanCountsAsTail(node, fname) ==
    LET w == Walk(node)
    IN  <<Cardinality({j \in 1..Len(w) : IsSelfCallNode(w[j], fname)}), 0>>

\* _scan_for_self_calls_generic(node): <<tail, non_tail>>
scan_for_self_calls_generic(node, fname) ==
    LET w == Walk(node)
    IN  <<0, Cardinality({j \in 1..Len(w) : IsSelfCallNode(w[j], fname)})>>

ReturnResult(ok, tail, non_tail, reasons) ==
    [ok |-> ok, tail |-> tail, non_tail |-> non_tail, reasons |-> reasons]

\* A variant that takes any expression other than a direct self-call as clean.
ReturnExprUnsearched(value, fname) ==
    IF value.k = "Call" /\ is_self_call(value.func, fname)
    THEN ReturnResult(TRUE, 1, 0, <<>>)
    ELSE ReturnResult(TRUE, 0, 0, <<>>)

\* A variant that refuses a buried self-call without counting it.
ReturnExprUncounted(value, fname) ==
    IF value.k = "None" THEN ReturnResult(TRUE, 0, 0, <<>>)
    ELSE IF value.k = "Call" /\ is_self_call(value.func, fname)
         THEN ReturnResult(TRUE, 1, 0, <<>>)
    ELSE IF contains_self_call(value, fname)
         THEN ReturnResult(FALSE, 0, 0, <<ReasonReturnExpr>>)
    ELSE ReturnResult(TRUE, 0, 0, <<>>)

\* _analyze_return_expr(value): (ok, self_calls_in_tail, self_calls_non_tail, reasons)
analyze_return_expr(value, fname) ==
    IF value.k = "None" THEN ReturnResult(TRUE, 0, 0, <<>>)
    ELSE IF value.k = "Call" /\ is_self_call(value.func, fname)
         THEN ReturnResult(TRUE, 1, 0, <<>>)
    ELSE IF contains_self_call(value, fname)
         THEN ReturnResult(FALSE, 0, 1, <<ReasonReturnExpr>>)
    ELSE ReturnResult(TRUE, 0, 0, <<>>)

BlockCheck(ok, always_returns, tail, non_tail, reasons) ==
    [ok |-> ok, always_returns |-> always_returns, self_calls_in_tail |-> tail,
     self_calls_non_tail |-> non_tail, reasons |-> reasons]

RECURSIVE check_block(_, _), CheckFrom(_, _, _, _)
\* The while loop of _check_block from index i on; acc holds the locals ok,
\* block_returns (as always_returns), tail_calls, non_tail_calls and reasons.
CheckFrom(stmts, i, acc, fname) ==
    IF i > Len(stmts) THEN acc
    ELSE LET s == stmts[i] IN
      CASE s.k = "Return" ->
             LET r == analyze_return_expr(s.value, fname)
             IN  BlockCheck(acc.ok /\ r.ok, TRUE,
                            acc.self_calls_in_tail + r.tail,
                            acc.self_calls_non_tail + r.non_tail,
                            acc.reasons \o r.reasons)
        [] s.k = "If" ->
             LET then_res == check_block(s.body, fname)
                 else_res == check_block(s.orelse, fname)
                 agg == BlockCheck(
                          acc.ok /\ then_res.ok /\ else_res.ok,
                          acc.always_returns,
                          acc.self_calls_in_tail + then_res.self_calls_in_tail
                              + else_res.self_calls_in_tail,
                          acc.self_calls_non_tail + then_res.self_calls_non_tail
                              + else_res.self_calls_non_tail,
                          acc.reasons \o then_res.reasons \o else_res.reasons)
             IN  IF then_res.always_returns /\ else_res.always_returns
                 THEN [agg EXCEPT !.always_returns = TRUE]
                 ELSE CheckFrom(stmts, i + 1, agg, fname)
        [] s.k \in LoopKinds ->
             LET sc == scan_for_self_calls_generic(s, fname)
             IN  CheckFrom(stmts, i + 1,
                     BlockCheck(acc.ok /\ (sc[2] = 0), acc.always_returns,
                                acc.self_calls_in_tail + sc[1],
                                acc.self_calls_non_tail + sc[2],
                                Append(acc.reasons, ReasonStructure(s.k))),
                     fname)
        [] OTHER ->
             LET sc == scan_for_self_calls_generic(s, fname)
             IN  CheckFrom(stmts, i + 1,
                     BlockCheck(IF sc[2] > 0 THEN FALSE ELSE acc.ok,
                                acc.always_returns,
                                acc.self_calls_in_tail + sc[1],
                                acc.self_calls_non_tail + sc[2],
                                IF sc[2] > 0
                                THEN Append(acc.reasons, ReasonGeneric(fname, s.k))
                                ELSE acc.reasons),
                     fname)

\* A scan for which an If at the end of a block closes it as soon as one
\* of its branches always returns.
CheckBlockEitherBranch(stmts, fname) ==
    LET r == CheckFrom(stmts, 1, BlockCheck(TRUE, FALSE, 0, 0, <<>>), fname)
        closes(s) == /\ s.k = "If"
                     /\ \/ check_block(s.body, fname).always_returns
                        \/ check_block(s.orelse, fname).always_returns
    IN  IF stmts # <<>> /\ closes(stmts[Len(stmts)])
        THEN [r EXCEPT !.always_returns = TRUE]
        ELSE r

\* A scan that goes on with the statements after the first Return.
CheckBlockPastReturn(stmts, fname) ==
    LET empty == BlockCheck(TRUE, FALSE, 0, 0, <<>>)
        returns == {p \in 1..Len(stmts) : stmts[p].k = "Return"}
        first == CHOOSE p \in returns : \A q \in returns : p <= q
    IN  IF returns = {} THEN CheckFrom(stmts, 1, empty, fname)
        ELSE CheckFrom(stmts, first + 1,
                       CheckFrom(SubSeq(stmts, 1, first), 1, empty, fname),
                       fname)

\* A scan that goes on with the statements after an If whose two branches
\* always return.
CheckBlockPastIf(stmts, fname) ==
    LET empty == BlockCheck(TRUE, FALSE, 0, 0, <<>>)
        closing == {p \in 1..Len(stmts) :
                      /\ stmts[p].k = "If"
                      /\ check_block(stmts[p].body, fname).always_returns
                      /\ check_block(stmts[p].orelse, fname).always_returns}
        first == CHOOSE p \in closing : \A q \in closing : p <= q
    IN  IF closing = {} THEN CheckFrom(stmts, 1, empty, fname)
        ELSE CheckFrom(stmts, first + 1,
                       CheckFrom(SubSeq(stmts, 1, first), 1, empty, fname),
                       fname)

\* A scan that passes over the statements that are bare expressions.
CheckBlockSkipsExpr(stmts, fname) ==
    LET kept(s) == s.k # "Expr"
    IN  CheckFrom(SelectSeq(stmts, kept), 1,
                  BlockCheck(TRUE, FALSE, 0, 0, <<>>), fname)

\* A scan that stops at the first If it meets, whatever its branches do.
CheckBlockStopsAtIf(stmts, fname) ==
    LET empty == BlockCheck(TRUE, FALSE, 0, 0, <<>>)
        ifs == {p \in 1..Len(stmts) : stmts[p].k = "If"}
        first == CHOOSE p \in ifs : \A q \in ifs : p <= q
    IN  IF ifs = {} THEN CheckFrom(stmts, 1, empty, fname)
        ELSE CheckFrom(SubSeq(stmts, 1, first), 1, empty, fname)

\* _check_block(stmts, in_loop=False); in_loop is passed along and never read.
check_block(stmts, fname) ==
    CheckFrom(stmts, 1, BlockCheck(TRUE, FALSE, 0, 0, <<>>), fname)

\* analyze(), its first statement: block = self._check_block(self.func.body)
AnalyzeBlock(func) == check_block(func.body, func.name)

\* A variant whose verdict does not ask that every path returns.
AnalysisWithoutReturnCheck(func, block) ==
    LET is_recursive ==
            (block.self_calls_in_tail + block.self_calls_non_tail) > 0
    IN  [name |-> func.name, is_recursive |-> is_recursive,
         is_tail_recursive |->
             is_recursive /\ block.ok /\ block.self_calls_non_tail = 0,
         reasons |-> block.reasons,
         total_self_calls |->
             block.self_calls_in_tail + block.self_calls_non_tail]

\* A variant that calls a function recursive on its tail calls alone.
AnalysisFromTailCalls(func, block) ==
    LET is_recursive == block.self_calls_in_tail > 0
    IN  [name |-> func.name, is_recursive |-> is_recursive,
         is_tail_recursive |->
             is_recursive /\ block.ok /\ block.self_calls_non_tail = 0
             /\ block.always_returns,
         reasons |-> block.reasons,
         total_self_calls |->
             block.self_calls_in_tail + block.self_calls_non_tail]

\* A variant that reports the diagnostics of the block scan and adds none
\* of its own.
AnalysisWithBlockReasons(func, block) ==
    LET is_recursive ==
            (block.self_calls_in_tail + block.self_calls_non_tail) > 0
    IN  [name |-> func.name, is_recursive |-> is_recursive,
         is_tail_recursive |->
             is_recursive /\ block.ok /\ block.self_calls_non_tail = 0
             /\ block.always_returns,
         reasons |-> block.reasons,
         total_self_calls |->
             block.self_calls_in_tail + block.self_calls_non_tail]

\* analyze(), the rest: the FunctionAnalysis built from block.
FunctionAnalysis(func, block) ==
    LET is_recursive ==
            (block.self_calls_in_tail + block.self_calls_non_tail) > 0
        is_tail == is_recursive /\ block.ok /\ block.self_calls_non_tail = 0
                   /\ block.always_returns
        r1 == IF is_recursive /\ block.self_calls_non_tail > 0
              THEN Append(block.reasons, ReasonNonTail) ELSE block.reasons
        r2 == IF ~block.always_returns THEN Append(r1, ReasonNoReturn) ELSE r1
        r3 == IF ~is_recursive THEN Append(r2, ReasonNotRecursive) ELSE r2
    IN  [name |-> func.name, is_recursive |-> is_recursive,
         is_tail_recursive |-> is_tail, reasons |-> r3,
         total_self_calls |->
             block.self_calls_in_tail + block.self_calls_non_tail]

\* TailRecursionAnalyzer(func).analyze()
analyze(func) == FunctionAnalysis(func, AnalyzeBlock(func))

(***************************************************************************)
(* tail_transform.py: the gate, the transformer and the rewriter.          *)
(***************************************************************************)
RECURSIVE GateScan(_, _, _, _)
\* The for loop of is_tail_recursive over ast.walk(func), from index j on.
GateScan(w, j, name, found_call) ==
    IF j > Len(w) THEN found_call
    ELSE IF w[j].node.k = "Call" /\ w[j].node.func.k = "Name"
            /\ w[j].node.func.id = name
         THEN IF w[j].parent # "Return" THEN FALSE
              ELSE GateScan(w, j + 1, name, TRUE)
         ELSE GateScan(w, j + 1, name, found_call)

\* is_tail_recursive(node) as analyze_and_transform calls it: on a function
\* of new_tree, which attach_parents(new_tree) has gone through.
is_tail_recursive(func) == GateScan(WalkParents(func), 1, func.name, FALSE)

\* A variant that rebinds the parameters one after the other.
RECURSIVE OneByOne(_, _, _)
OneByOne(params, values, j) ==
    IF j > Len(params) \/ j > Len(values) THEN <<>>
    ELSE <<Assign(NameStore(params[j]), values[j])>>
         \o OneByOne(params, values, j + 1)

visit_ReturnSequential(node, func_name, params) ==
    IF node.value.k = "Call" /\ node.value.func.k = "Name"
       /\ node.value.func.id = func_name
    THEN Append(OneByOne(params, node.value.args, 1), Continue)
    ELSE <<node>>

\* A variant that rebinds the parameters and lets control go on.
visit_ReturnFallingThrough(node, func_name, params) ==
    IF node.value.k = "Call" /\ node.value.func.k = "Name"
       /\ node.value.func.id = func_name
    THEN <<Assign(TupleNode([j \in 1..Len(params) |-> NameStore(params[j])],
                            "Store"),
                  TupleNode(node.value.args, "Load"))>>
    ELSE <<node>>

\* TailTransformer.visit_Return: the statements that replace the node.
visit_Return(node, func_name, params) ==
    IF node.value.k = "Call" /\ node.value.func.k = "Name"
       /\ node.value.func.id = func_name
    THEN \* self.visit(a) leaves an expression as it is: no Return is in one.
         LET new_values == node.value.args
             assign == Assign(
                 TupleNode([j \in 1..Len(params) |-> NameStore(params[j])],
                           "Store"),
                 TupleNode(new_values, "Load"))
         IN  <<assign, Continue>>
    ELSE <<node>>

RECURSIVE visit(_, _, _), VisitList(_, _, _)
\* NodeTransformer.visit on a statement: visit_Return for a Return, else
\* generic_visit, which rewrites the statement lists of the node in place.
\* The result is a sequence: what the parent list is extended with.
visit(node, func_name, params) ==
    CASE node.k = "Return" -> visit_Return(node, func_name, params)
      [] node.k \in CompoundKinds ->
           <<[node EXCEPT !.body = VisitList(node.body, func_name, params),
                          !.orelse = VisitList(node.orelse, func_name, params)]>>
      [] node.k = "FunctionDef" ->
           <<[node EXCEPT !.body = VisitList(node.body, func_name, params)]>>
      [] OTHER -> <<node>>

\* generic_visit on a list field: each visited item appended, a list extended.
VisitList(stmts, func_name, params) ==
    IF stmts = <<>> THEN <<>>
    ELSE visit(Head(stmts), func_name, params)
         \o VisitList(Tail(stmts), func_name, params)

\* A variant of the loop over func.body that loses the first statement.
NewBodyFromSecond(stmts, func_name, params) ==
    IF stmts = <<>> THEN <<>>
    ELSE VisitList(Tail(stmts), func_name, params)

RECURSIVE NewBody(_, _, _)
\* transform_tail_recursion's loop over func.body building new_body.
NewBody(stmts, func_name, params) ==
    IF stmts = <<>> THEN <<>>
    ELSE visit(Head(stmts), func_name, params)
         \o NewBody(Tail(stmts), func_name, params)

\* A variant that keeps the last statement of the body after the loop.
TransformKeepingLast(func) ==
    LET new_body == NewBody(func.body, func.name, func.params)
        loop == Compound("While", ConstTrue, new_body, <<>>)
    IN  [func EXCEPT !.body = <<loop, func.body[Len(func.body)]>>]

\* transform_tail_recursion(func): func itself, its body replaced by the loop.
transform_tail_recursion(func) ==
    LET params == func.params
        new_body == NewBody(func.body, func.name, params)
        loop == Compound("While", ConstTrue, new_body, <<>>)
    IN  [func EXCEPT !.body = <<loop>>]

IsDefOf(node, id) == node.k = "FunctionDef" /\ node.name = id

(***************************************************************************)
(* Running a function: the part of Python's evaluation the functions at    *)
(* hand use.  Integers, booleans (an int subclass: True == 1), None and    *)
(* tuples; a module is the sequence of its definitions, the last of a      *)
(* name being the one the name is bound to.  fuel bounds the calls and     *)
(* loop iterations of one run: at 0 the run is cut as "diverge".           *)
(***************************************************************************)
IntV(n) == [t |-> "int", v |-> n, items |-> <<>>]

BoolV(b) == [t |-> "bool", v |-> IF b THEN 1 ELSE 0, items |-> <<>>]

NoneV == [t |-> "none", v |-> 0, items |-> <<>>]

FunctionV == [t |-> "function", v |-> 0, items |-> <<>>]

TupleV(items) == [t |-> "tuple", v |-> 0, items |-> items]

Numeric(val) == val.t \in {"int", "bool"}

Truthy(val) ==
    CASE Numeric(val)      -> val.v # 0
      [] val.t = "tuple"   -> val.items # <<>>
      [] val.t = "none"    -> FALSE
      [] OTHER             -> TRUE

\* What evaluating an expression, or calling a function, comes to.
Ok(val) == [k |-> "value", val |-> val, exc |-> ""]

Raise(exc) == [k |-> "raise", val |-> NoneV, exc |-> exc]

Diverge == [k |-> "diverge", val |-> NoneV, exc |-> ""]

\* What executing a statement comes to: one of the above, a return being
\* its value, or control going on with the local variables env.
Fall(env) == [k |-> "fall", env |-> env]

Loop(env) == [k |-> "continue", env |-> env]

\* Python's %: the result has the sign of the divisor.
PyMod(a, b) ==
    IF b > 0 THEN a % b
    ELSE LET m == (-a) % (-b) IN IF m = 0 THEN 0 ELSE -m

ApplyBinOp(op, l, r) ==
    IF ~(Numeric(l) /\ Numeric(r)) THEN Raise("TypeError")
    ELSE CASE op = "+" -> Ok(IntV(l.v + r.v))
           [] op = "-" -> Ok(IntV(l.v - r.v))
           [] op = "*" -> Ok(IntV(l.v * r.v))
           [] op = "%" -> IF r.v = 0 THEN Raise("ZeroDivisionError")
                          ELSE Ok(IntV(PyMod(l.v, r.v)))
           [] OTHER    -> Raise("Unmodelled")

ApplyCompare(op, l, r) ==
    IF Numeric(l) /\ Numeric(r)
    THEN CASE op = "<=" -> Ok(BoolV(l.v <= r.v))
           [] op = "<"  -> Ok(BoolV(l.v < r.v))
           [] op = ">=" -> Ok(BoolV(l.v >= r.v))
           [] op = ">"  -> Ok(BoolV(l.v > r.v))
           [] op = "==" -> Ok(BoolV(l.v = r.v))
           [] op = "!=" -> Ok(BoolV(l.v # r.v))
           [] OTHER     -> Raise("Unmodelled")
    ELSE CASE op = "==" -> Ok(BoolV(l = r))
           [] op = "!=" -> Ok(BoolV(l # r))
           [] OTHER     -> Raise("TypeError")

Bind(env, id, val) ==
    [x \in DOMAIN env \cup {id} |-> IF x = id THEN val ELSE env[x]]

EmptyEnv == [x \in {} |-> NoneV]

Defined(mod, id) == \E j \in 1..Len(mod) : IsDefOf(mod[j], id)

\* The definition a module binds a name to: the last one of that name.
Lookup(mod, id) ==
    mod[CHOOSE j \in 1..Len(mod) :
            /\ IsDefOf(mod[j], id)
            /\ \A m \in (j + 1)..Len(mod) : ~IsDefOf(mod[m], id)]

\* The failure of an argument list, as the failure of the call.
Failed(x) == [k |-> x.k, val |-> NoneV, exc |-> x.exc]

\* A body that ends without a return gives None.  Python refuses a continue
\* that is in no loop when it compiles the module; here the call raises.
Returned(r) ==
    CASE r.k = "fall"     -> Ok(NoneV)
      [] r.k = "continue" -> Raise("SyntaxError")
      [] OTHER            -> r

RECURSIVE Eval(_, _, _, _), EvalList(_, _, _, _), EvalKeywords(_, _, _, _),
          CallFunction(_, _, _, _, _), BindKeywords(_, _, _),
          BindDefaults(_, _, _), ExecBlock(_, _, _, _), ExecStmt(_, _, _, _),
          ExecWhile(_, _, _, _), Unpack(_, _, _)

\* The elements of a display or an argument list, left to right.
EvalList(es, env, mod, fuel) ==
    IF es = <<>> THEN [k |-> "value", vals |-> <<>>, exc |-> ""]
    ELSE LET h == Eval(Head(es), env, mod, fuel)
             rest == EvalList(Tail(es), env, mod, fuel)
         IN  CASE h.k # "value"    -> [k |-> h.k, vals |-> <<>>, exc |-> h.exc]
               [] rest.k # "value" -> rest
               [] OTHER -> [k |-> "value", vals |-> <<h.val>> \o rest.vals,
                            exc |-> ""]

EvalKeywords(kws, env, mod, fuel) ==
    IF kws = <<>> THEN [k |-> "value", vals |-> <<>>, exc |-> ""]
    ELSE LET h == Eval(Head(kws).value, env, mod, fuel)
             rest == EvalKeywords(Tail(kws), env, mod, fuel)
         IN  CASE h.k # "value"    -> [k |-> h.k, vals |-> <<>>, exc |-> h.exc]
               [] rest.k # "value" -> rest
               [] OTHER -> [k |-> "value",
                            vals |-> <<[arg |-> Head(kws).arg, val |-> h.val]>>
                                     \o rest.vals,
                            exc |-> ""]

Eval(e, env, mod, fuel) ==
    CASE e.k = "Name" ->
           IF e.id \in DOMAIN env THEN Ok(env[e.id])
           ELSE IF Defined(mod, e.id) THEN Ok(FunctionV)
           ELSE Raise("NameError")
      [] e.k = "Constant" ->
           IF e.t = "bool" THEN Ok(BoolV(e.v # 0)) ELSE Ok(IntV(e.v))
      [] e.k \in {"BinOp", "Compare"} ->
           LET l == Eval(e.left, env, mod, fuel)
               r == Eval(e.right, env, mod, fuel)
           IN  CASE l.k # "value" -> l
                 [] r.k # "value" -> r
                 [] e.k = "BinOp" -> ApplyBinOp(e.op, l.val, r.val)
                 [] OTHER         -> ApplyCompare(e.op, l.val, r.val)
      [] e.k = "Tuple" ->
           LET vs == EvalList(e.elts, env, mod, fuel) IN
           IF vs.k # "value" THEN Failed(vs) ELSE Ok(TupleV(vs.vals))
      [] e.k = "Attribute" ->
           LET o == Eval(e.value, env, mod, fuel) IN
           IF o.k # "value" THEN o ELSE Raise("AttributeError")
      [] e.k = "Call" ->
           \* the callee first, then the arguments, then the call
           LET f == Eval(e.func, env, mod, fuel)
               as == EvalList(e.args, env, mod, fuel)
               ks == EvalKeywords(e.keywords, env, mod, fuel)
           IN  CASE f.k # "value"  -> f
                 [] as.k # "value" -> Failed(as)
                 [] ks.k # "value" -> Failed(ks)
                 [] f.val.t = "function" /\ e.func.k = "Name" ->
                      CallFunction(Lookup(mod, e.func.id), as.vals, ks.vals,
                                   mod, fuel)
                 [] OTHER -> Raise("TypeError")
      [] OTHER -> Raise("Unmodelled")

\* Keyword arguments bound after the positional ones; a result of k "raise"
\* stands for the TypeError of a call that names no parameter, or one twice.
BindKeywords(fdef, env, kws) ==
    IF kws = <<>> THEN [k |-> "value", env |-> env]
    ELSE LET kw == Head(kws) IN
         IF (\A j \in 1..Len(fdef.params) : fdef.params[j] # kw.arg)
            \/ kw.arg \in DOMAIN env
         THEN [k |-> "raise", env |-> env]
         ELSE BindKeywords(fdef, Bind(env, kw.arg, kw.val), Tail(kws))

\* Parameters from index j on that are still unbound take their default;
\* the defaults belong to the last parameters.
BindDefaults(fdef, env, j) ==
    IF j > Len(fdef.params) THEN [k |-> "value", env |-> env]
    ELSE LET p == fdef.params[j]
             d == j - (Len(fdef.params) - Len(fdef.defaults))
         IN  IF p \in DOMAIN env THEN BindDefaults(fdef, env, j + 1)
             ELSE IF d >= 1
                  THEN BindDefaults(
                         fdef,
                         Bind(env, p, Eval(fdef.defaults[d], EmptyEnv, <<>>, 0).val),
                         j + 1)
                  ELSE [k |-> "raise", env |-> env]

\* A call of fdef with evaluated arguments: the value returned, raise or
\* diverge.  Each call takes one unit of fuel.
CallFunction(fdef, args, kws, mod, fuel) ==
    LET positional ==
            [x \in {fdef.params[j] : j \in 1..Len(args)} |->
                args[CHOOSE j \in 1..Len(args) : fdef.params[j] = x]]
        named == BindKeywords(fdef, positional, kws)
        full == BindDefaults(fdef, named.env, 1)
    IN  CASE Len(args) > Len(fdef.params) -> Raise("TypeError")
          [] named.k # "value"            -> Raise("TypeError")
          [] full.k # "value"             -> Raise("TypeError")
          [] fuel = 0                     -> Diverge
          [] OTHER -> Returned(ExecBlock(fdef.body, full.env, mod, fuel - 1))

ExecBlock(stmts, env, mod, fuel) ==
    CASE stmts = <<>>   -> Fall(env)
      [] Len(stmts) = 1 -> ExecStmt(stmts[1], env, mod, fuel)
      [] OTHER ->
           LET r == ExecStmt(Head(stmts), env, mod, fuel) IN
           IF r.k = "fall" THEN ExecBlock(Tail(stmts), r.env, mod, fuel) ELSE r

\* target = value, the target a name or a tuple of names.
Unpack(target, val, env) ==
    CASE target.k = "Name"  -> Fall(Bind(env, target.id, val))
      [] target.k # "Tuple" -> Raise("Unmodelled")
      [] val.t # "tuple"    -> Raise("TypeError")
      [] Len(val.items) # Len(target.elts) -> Raise("ValueError")
      [] target.elts = <<>> -> Fall(env)
      [] OTHER ->
           LET first == Unpack(target.elts[1], val.items[1], env) IN
           IF first.k # "fall" THEN first
           ELSE Unpack(TupleNode(Tail(target.elts), "Store"),
                       TupleV(Tail(val.items)), first.env)

\* Each iteration takes one unit of fuel.
ExecWhile(s, env, mod, fuel) ==
    LET t == Eval(s.test, env, mod, fuel)
        b == ExecBlock(s.body, env, mod, fuel)
    IN  CASE fuel = 0         -> Diverge
          [] t.k # "value"    -> t
          [] ~Truthy(t.val)   -> ExecBlock(s.orelse, env, mod, fuel)
          [] b.k \in {"fall", "continue"} -> ExecWhile(s, b.env, mod, fuel - 1)
          [] OTHER            -> b

ExecStmt(s, env, mod, fuel) ==
    CASE s.k = "Return" /\ s.value.k = "None" -> Ok(NoneV)
      [] s.k = "Return" -> Eval(s.value, env, mod, fuel)
      [] s.k = "If" ->
           LET t == Eval(s.test, env, mod, fuel) IN
           CASE t.k # "value" -> t
             [] Truthy(t.val) -> ExecBlock(s.body, env, mod, fuel)
             [] OTHER         -> ExecBlock(s.orelse, env, mod, fuel)
      [] s.k = "While" -> ExecWhile(s, env, mod, fuel)
      [] s.k = "Assign" ->
           LET r == Eval(s.value, env, mod, fuel) IN
           IF r.k # "value" THEN r ELSE Unpack(s.target, r.val, env)
      [] s.k = "Expr" ->
           LET r == Eval(s.value, env, mod, fuel) IN
           IF r.k # "value" THEN r ELSE Fall(env)
      [] s.k = "Continue" -> Loop(env)
      [] OTHER -> Raise("Unmodelled")

(***************************************************************************)
(* The printer and the source-text lookup are external collaborators       *)
(* (ast.unparse, ast.get_source_segment): a text is kept as the tree it is *)
(* the text of.                                                            *)
(***************************************************************************)
get_source_segment(orig_node) == [segment_of |-> orig_node]

unparse(node) == [unparsed_func |-> node]

unparse_module(body) == [unparsed_module |-> body]

(***************************************************************************)
(* Input programs.                                                         *)
(***************************************************************************)
N == Name("n")

Acc == Name("acc")

NMinus1 == BinOp(N, "-", ConstInt(1))

NLeq1 == Compare(N, "<=", ConstInt(1))

\* src/examples/sample_input.py
Fact ==
    FunctionDef("fact", <<"n", "acc">>, <<ConstInt(1)>>,
      << If(NLeq1, <<Return(Acc)>>, <<>>),
         Return(Call(Name("fact"), <<NMinus1, BinOp(Acc, "*", N)>>, <<>>)) >>)

FactNonTail ==
    FunctionDef("fact_non_tail", <<"n">>, <<>>,
      << If(NLeq1, <<Return(ConstInt(1))>>, <<>>),
         Return(BinOp(N, "*", Call(Name("fact_non_tail"), <<NMinus1>>, <<>>))) >>)

Fib ==
    FunctionDef("fib", <<"n", "a", "b">>, <<ConstInt(0), ConstInt(1)>>,
      << If(Compare(N, "==", ConstInt(0)), <<Return(Name("a"))>>, <<>>),
         If(Compare(N, "==", ConstInt(1)), <<Return(Name("b"))>>, <<>>),
         Return(Call(Name("fib"),
                     <<NMinus1, Name("b"), BinOp(Name("a"), "+", Name("b"))>>,
                     <<>>)) >>)

SampleInput == <<Fact, FactNonTail, Fib>>

\* src/examples/sample_input_transformed.py, what the tool wrote for fact
FactLoop ==
    FunctionDef("fact", <<"n", "acc">>, <<ConstInt(1)>>,
      << Compound("While", ConstTrue,
           << If(NLeq1, <<Return(Acc)>>, <<>>),
              Assign(TupleNode(<<NameStore("n"), NameStore("acc")>>, "Store"),
                     TupleNode(<<NMinus1, BinOp(Acc, "*", N)>>, "Load")),
              Continue >>,
           <<>>) >>)

\* the parameter rebinding of fib in sample_input_transformed.py
FibRebinding ==
    Assign(TupleNode(<<NameStore("n"), NameStore("a"), NameStore("b")>>, "Store"),
           TupleNode(<<NMinus1, Name("b"), BinOp(Name("a"), "+", Name("b"))>>,
                     "Load"))

\* src/examples/sample_input_transformed.py, what the tool wrote for fib
FibLoop ==
    FunctionDef("fib", <<"n", "a", "b">>, <<ConstInt(0), ConstInt(1)>>,
      << Compound("While", ConstTrue,
           << If(Compare(N, "==", ConstInt(0)), <<Return(Name("a"))>>, <<>>),
              If(Compare(N, "==", ConstInt(1)), <<Return(Name("b"))>>, <<>>),
              FibRebinding,
              Continue >>,
           <<>>) >>)

\* Generated functions are all named f(n, acc=1).
SelfCall(args, keywords) == Call(Name("f"), args, keywords)

ETail == SelfCall(<<NMinus1, BinOp(Acc, "*", N)>>, <<>>)

EPlain == SelfCall(<<NMinus1, Acc>>, <<>>)

ENonTail == BinOp(N, "*", EPlain)

ENested == SelfCall(<<EPlain, Acc>>, <<>>)

EInOther == Call(Name("g"), <<EPlain>>, <<>>)

EAttr == Call(Attribute(Name("obj"), "f"), <<NMinus1, Acc>>, <<>>)

EKeyword == SelfCall(<<NMinus1>>, <<Keyword("acc", BinOp(Acc, "*", N))>>)

SelfTest == Compare(EPlain, "<=", ConstInt(1))

RBase == Return(Acc)

RTail == Return(ETail)

RNonTail == Return(ENonTail)

SCall == ExprStmt(EPlain)

SAssign == Assign(NameStore("acc"), BinOp(Acc, "*", N))

ReturnStmts ==
    {Return(NoneNode), RBase, RTail, RNonTail, Return(ENested),
     Return(EInOther), Return(EAttr), Return(EKeyword)}

GenericStmts == {SCall, SAssign}

IfStmts ==
    {If(NLeq1, b, e) : b \in {<<RBase>>, <<RTail>>, <<RNonTail>>, <<SCall>>,
                              <<SAssign>>},
                       e \in {<<>>, <<RBase>>, <<RTail>>}}
    \cup {If(SelfTest, <<RBase>>, <<>>), If(SelfTest, <<RBase>>, <<RTail>>),
          If(NLeq1, <<If(NLeq1, <<RBase>>, <<RTail>>)>>, <<RTail>>),
          If(NLeq1, <<RBase, RNonTail>>, <<>>)}

LoopHeader(kind) ==
    CASE kind = "While" -> NLeq1
      [] kind = "Try"   -> NoneNode
      [] OTHER          -> Name("xs")

LoopStmts ==
    {Compound(kind, LoopHeader(kind), <<RTail>>, <<>>) : kind \in LoopKinds}
    \cup {Compound("While", NLeq1, <<RBase>>, <<>>),
          Compound("While", NLeq1, <<SAssign>>, <<>>)}

NestedDefs == {FunctionDef("h", <<>>, <<>>, <<RTail>>)}

Stmts == ReturnStmts \cup GenericStmts \cup IfStmts \cup LoopStmts \cup NestedDefs

MaxBodyLen == 2

RECURSIVE SeqsUpTo(_, _)
\* The non-empty sequences over S of length at most n.
SeqsUpTo(S, n) ==
    IF n = 0 THEN {}
    ELSE LET shorter == SeqsUpTo(S, n - 1)
         IN  {<<x>> : x \in S} \cup shorter
             \cup {Append(q, x) : q \in shorter, x \in S}

Bodies == SeqsUpTo(Stmts, MaxBodyLen)

Funcs ==
    {FunctionDef("f", <<"n", "acc">>, <<ConstInt(1)>>, b) : b \in Bodies}
    \cup {Fact, FactNonTail, Fib}

\* One function per unit: each function is analysed and rewritten on its own.
Units == {<<fn>> : fn \in Funcs}

FuncNames == {"f", "fact", "fact_non_tail", "fib", "h"}

(***************************************************************************)
(* State.                                                                  *)
(***************************************************************************)
VARIABLES
    source,             \* the unit given to both tools, as ast.parse reads it
    pc,                 \* start, analyzed, loop, done, api
    results,            \* analyze_source: the FunctionAnalysis list
    blocks,             \* the BlockCheck analyze() held for each of them
    original_tree,      \* analyze_and_transform: first parse, never rewritten
    new_tree,           \* second parse, the tree the rewriter works on
    i,                  \* position of the loop over new_tree.body
    seen_count,         \* occurrences seen so far, by function name
    info,               \* (name, is_transformed) per function
    sections,           \* (name, original_src, transformed_func_src)
    transformed_source, \* text of the whole rewritten unit
    rw,                 \* a direct call of transform_tail_recursion
    run,                \* a call of a function, before and after rewriting
    cls                 \* a node put to _is_self_call and _contains_self_call

vars == <<source, pc, results, blocks, original_tree, new_tree, i, seen_count,
          info, sections, transformed_source, rw, run, cls>>

InitWith(units) ==
    /\ source \in units
    /\ pc = "start"
    /\ results = <<>>
    /\ blocks = <<>>
    /\ original_tree = <<>>
    /\ new_tree = <<>>
    /\ i = 1
    /\ seen_count = [nm \in FuncNames |-> 0]
    /\ info = <<>>
    /\ sections = <<>>
    /\ transformed_source = unparse_module(<<>>)
    /\ rw = [k |-> "idle"]
    /\ run = [k |-> "idle"]
    /\ cls = [k |-> "idle"]

Init == InitWith(Units)

IsFunctionDef(node) == node.k = "FunctionDef"

\* The top-level function definitions of a module body, in order.
TopFuncs(body) == SelectSeq(body, IsFunctionDef)

\* tail_analysis.analyze_source: analyze() on every top-level function.
AnalyzeSource ==
    /\ pc = "start"
    /\ results' = [j \in 1..Len(TopFuncs(source)) |-> analyze(TopFuncs(source)[j])]
    /\ blocks' = [j \in 1..Len(TopFuncs(source)) |->
                     AnalyzeBlock(TopFuncs(source)[j])]
    /\ pc' = "analyzed"
    /\ UNCHANGED <<source, original_tree, new_tree, i, seen_count, info,
                   sections, transformed_source, rw, run, cls>>

\* analyze_and_transform up to its loop: the two parses and the empty reports.
Parse ==
    /\ pc = "analyzed"
    /\ original_tree' = source
    /\ new_tree' = source
    /\ i' = 1
    /\ seen_count' = [nm \in FuncNames |-> 0]
    /\ info' = <<>>
    /\ sections' = <<>>
    /\ pc' = "loop"
    /\ UNCHANGED <<source, results, blocks, transformed_source, rw, run, cls>>

\* The definitions of a name collected last first.
OriginalFuncsLastFirst(name) ==
    LET named(node) == IsFunctionDef(node) /\ node.name = name
        found == SelectSeq(original_tree, named)
    IN  [q \in 1..Len(found) |-> found[Len(found) + 1 - q]]

\* The definitions of a name with one entry per name, as a plain
\* name -> node dictionary keeps them.
OriginalFuncsOnePerName(name) ==
    LET named(node) == IsFunctionDef(node) /\ node.name = name
        found == SelectSeq(original_tree, named)
    IN  IF found = <<>> THEN <<>> ELSE <<found[Len(found)]>>

\* original_funcs_by_name.get(name, [])
OriginalFuncsByName(name) ==
    LET named(node) == IsFunctionDef(node) /\ node.name = name
    IN  SelectSeq(original_tree, named)

\* The loop as it would run on a single parse: the node whose text is
\* looked up is the node being rewritten.
LoopStepOnOneTree ==
    /\ pc = "loop"
    /\ i <= Len(new_tree)
    /\ LET node == new_tree[i]
           is_def == IsFunctionDef(node)
           changed == is_def /\ is_tail_recursive(node)
           rewritten == IF changed THEN transform_tail_recursion(node) ELSE node
       IN  /\ new_tree' = [new_tree EXCEPT ![i] = rewritten]
           /\ original_tree' = new_tree'
           /\ seen_count' = IF is_def
                            THEN [seen_count EXCEPT ![node.name] = @ + 1]
                            ELSE seen_count
           /\ info' = IF is_def
                      THEN Append(info, [name |-> node.name,
                                         transformed |-> changed])
                      ELSE info
           /\ sections' = IF changed
                          THEN Append(sections,
                                  [name |-> node.name,
                                   original_src |-> get_source_segment(node),
                                   transformed_func_src |-> unparse(rewritten)])
                          ELSE sections
    /\ i' = i + 1
    /\ UNCHANGED <<source, pc, results, blocks, transformed_source, rw, run, cls>>

\* One iteration of the loop over new_tree.body.
LoopStep ==
    /\ pc = "loop"
    /\ i <= Len(new_tree)
    /\ LET node == new_tree[i] IN
       IF ~IsFunctionDef(node)
       THEN /\ i' = i + 1
            /\ UNCHANGED <<pc, new_tree, seen_count, info, sections>>
       ELSE LET name == node.name
                count == seen_count[name] + 1
                occ_idx == count - 1
                originals == OriginalFuncsByName(name)
            IN  /\ seen_count' = [seen_count EXCEPT ![name] = count]
                /\ IF is_tail_recursive(node)
                   THEN IF occ_idx + 1 > Len(originals)
                        THEN \* IndexError leaves analyze_and_transform
                             /\ pc' = "crashed"
                             /\ info' = Append(info, [name |-> name,
                                                      transformed |-> TRUE])
                             /\ UNCHANGED <<i, new_tree, sections>>
                        ELSE LET orig_node == originals[occ_idx + 1]
                                 rewritten == transform_tail_recursion(node)
                             IN  /\ info' = Append(info, [name |-> name,
                                                          transformed |-> TRUE])
                                 /\ new_tree' = [new_tree EXCEPT ![i] = rewritten]
                                 /\ sections' = Append(sections,
                                        [name |-> name,
                                         original_src |-> get_source_segment(orig_node),
                                         transformed_func_src |-> unparse(rewritten)])
                                 /\ i' = i + 1
                                 /\ pc' = pc
                   ELSE /\ info' = Append(info, [name |-> name,
                                                 transformed |-> FALSE])
                        /\ i' = i + 1
                        /\ UNCHANGED <<pc, new_tree, sections>>
    /\ UNCHANGED <<source, results, blocks, original_tree, transformed_source,
                   rw, run, cls>>

\* A printing of the rewritten definitions alone.
FinishWithRewrittenOnly ==
    /\ pc = "loop"
    /\ i > Len(new_tree)
    /\ LET changed(p) == new_tree[p] # original_tree[p]
           at == SelectSeq([p \in 1..Len(new_tree) |-> p], changed)
       IN  transformed_source' =
               unparse_module([q \in 1..Len(at) |-> new_tree[at[q]]])
    /\ pc' = "done"
    /\ UNCHANGED <<source, results, blocks, original_tree, new_tree, i,
                   seen_count, info, sections, rw, run, cls>>

\* After the loop: the whole unit is printed and returned.
Finish ==
    /\ pc = "loop"
    /\ i > Len(new_tree)
    /\ transformed_source' = unparse_module(new_tree)
    /\ pc' = "done"
    /\ UNCHANGED <<source, results, blocks, original_tree, new_tree, i,
                   seen_count, info, sections, rw, run, cls>>

\* transform_tail_recursion called on a function as it stands: the function
\* does not look at any verdict.  arg is the node passed before the call,
\* node the same object after it, out the value returned.
RewriteDirect ==
    /\ pc = "analyzed"
    /\ \E j \in 1..Len(TopFuncs(source)) :
         LET func == TopFuncs(source)[j]
         IN  rw' = [k |-> "returned", j |-> j, arg |-> func,
                    node |-> transform_tail_recursion(func),
                    out |-> transform_tail_recursion(func)]
    /\ pc' = "api"
    /\ UNCHANGED <<source, results, blocks, original_tree, new_tree, i,
                   seen_count, info, sections, transformed_source, run,
                   cls>>

Next == AnalyzeSource \/ Parse \/ LoopStep \/ Finish \/ RewriteDirect

Spec == Init /\ [][Next]_vars

(***************************************************************************)
(* The example unit run before and after the tool has rewritten it.        *)
(***************************************************************************)
MaxArg == 10

Fuel == 24

\* The positional argument lists a definition accepts, over 0..MaxArg.
RunArgs(fdef) ==
    UNION {[1..m -> 0..MaxArg] :
             m \in (Len(fdef.params) - Len(fdef.defaults))..Len(fdef.params)}

IntArgs(args) == [j \in 1..Len(args) |-> IntV(args[j])]

\* One call fn(*args) in the module as given, and the same call in the
\* module as analyze_and_transform returned it.
RunStep ==
    /\ pc = "done"
    /\ run.k = "idle"
    /\ \E j \in 1..Len(original_tree) :
         \E args \in RunArgs(original_tree[j]) :
           run' = [k |-> "ran", j |-> j, args |-> args,
                   orig |-> CallFunction(original_tree[j], IntArgs(args), <<>>,
                                         original_tree, Fuel),
                   new |-> CallFunction(new_tree[j], IntArgs(args), <<>>,
                                        new_tree, Fuel)]
    /\ UNCHANGED <<source, pc, results, blocks, original_tree, new_tree, i,
                   seen_count, info, sections, transformed_source, rw,
                   cls>>

InitRun == InitWith({SampleInput})

NextRun == Next \/ RunStep

SpecRun == InitRun /\ [][NextRun]_vars

(***************************************************************************)
(* Vocabulary of the properties, defined on the syntax alone.              *)
(***************************************************************************)
\* A call whose callee is the bare name fname.
CallsName(node, fname) ==
    node.k = "Call" /\ node.func.k = "Name" /\ node.func.id = fname

\* The self-calls of the subtree of node, each with the class of its parent;
\* pk is the class of node's own parent.
SelfCallsUnder(node, pk, fname) ==
    LET hit(e) == CallsName(e.node, fname)
    IN  SelectSeq(WalkParentsQueue(<<WithParent(node, pk)>>), hit)

RECURSIVE Terminal(_)
\* A statement sequence that returns on every path: it holds a Return, or an
\* If whose two branches both do.
Terminal(stmts) ==
    \E j \in 1..Len(stmts) :
        \/ stmts[j].k = "Return"
        \/ stmts[j].k = "If" /\ Terminal(stmts[j].body) /\ Terminal(stmts[j].orelse)

Terminator(s) ==
    \/ s.k = "Return"
    \/ s.k = "If" /\ Terminal(s.body) /\ Terminal(s.orelse)

RECURSIVE Reachable(_)
\* The statements of a sequence up to its first terminator, those of the
\* branches of each If among them included (the If itself comes first).
Reachable(stmts) ==
    IF stmts = <<>> THEN <<>>
    ELSE LET s == Head(stmts)
             inner == IF s.k = "If" THEN Reachable(s.body) \o Reachable(s.orelse)
                      ELSE <<>>
         IN  <<s>> \o inner
             \o (IF Terminator(s) THEN <<>> ELSE Reachable(Tail(stmts)))

\* The self-calls of one reachable statement: of all of it, but for an If
\* of its condition only (its branches are reachable statements themselves).
CallsOfStmt(s, fname) ==
    IF s.k = "If" THEN SelfCallsUnder(s.test, "If", fname)
    ELSE SelfCallsUnder(s, "Block", fname)

RECURSIVE FlatCalls(_, _)
FlatCalls(stmts, fname) ==
    IF stmts = <<>> THEN <<>>
    ELSE CallsOfStmt(Head(stmts), fname) \o FlatCalls(Tail(stmts), fname)

\* Every self-call in the reachable statements of a function.
ReachableSelfCalls(func) == FlatCalls(Reachable(func.body), func.name)

\* A Return whose expression holds a self-call without being one.
BuriedReturn(s, fname) ==
    /\ s.k = "Return"
    /\ s.value.k # "None"
    /\ ~CallsName(s.value, fname)
    /\ SelfCallsUnder(s.value, "Return", fname) # <<>>

CountIn(sq, Test(_)) == Len(SelectSeq(sq, Test))

BuriedReturns(func) ==
    LET buried(s) == BuriedReturn(s, func.name)
    IN  CountIn(Reachable(func.body), buried)

RECURSIVE SumCalls(_, _)
\* The self-calls in the reachable statements that are neither Return nor If.
SumCalls(stmts, fname) ==
    IF stmts = <<>> THEN 0
    ELSE (IF Head(stmts).k \in {"Return", "If"} THEN 0
          ELSE Len(SelfCallsUnder(Head(stmts), "Block", fname)))
         + SumCalls(Tail(stmts), fname)

Analysed == pc # "start"

Fn(j) == TopFuncs(source)[j]

(***************************************************************************)
(* C1.  Soundness of certification: whenever analyze returns               *)
(* is_tail_recursive for a function, every self-call at any depth of its   *)
(* reachable statements, in whatever slot, is the direct operand of a      *)
(* Return.  The code certifies `return f(f(n - 1, acc), acc)` and          *)
(* `if f(n - 1, acc) <= 1: ...`: the statement fails.                      *)
(***************************************************************************)
C1_CertifiedCallsAreReturnOperands ==
    Analysed =>
      \A j \in 1..Len(results) :
        results[j].is_tail_recursive =>
          \A c \in 1..Len(ReachableSelfCalls(Fn(j))) :
             ReachableSelfCalls(Fn(j))[c].parent = "Return"

(***************************************************************************)
(* C2.  For every analysed function, is_tail_recursive = is_recursive and  *)
(* block.ok and self_calls_non_tail = 0 and block.always_returns.          *)
(***************************************************************************)
C2_VerdictIsConjunction ==
    Analysed =>
      \A j \in 1..Len(results) :
        /\ results[j].is_tail_recursive =
             (/\ results[j].is_recursive
              /\ blocks[j].ok
              /\ blocks[j].self_calls_non_tail = 0
              /\ blocks[j].always_returns)
        /\ results[j].is_tail_recursive =>
             /\ results[j].is_recursive
             /\ blocks[j].self_calls_non_tail = 0
             /\ blocks[j].ok
             /\ blocks[j].always_returns

\* A recursive function with no non-tail call that is refused only because
\* a path does not return, and so shows the last conjunct at work.
C2_Witness ==
    /\ Analysed
    /\ \E j \in 1..Len(results) :
         /\ results[j].is_recursive
         /\ blocks[j].ok
         /\ blocks[j].self_calls_non_tail = 0
         /\ ~blocks[j].always_returns
         /\ ~results[j].is_tail_recursive

(***************************************************************************)
(* C3.  is_recursive holds exactly when total_self_calls > 0, and          *)
(* total_self_calls is the sum of the tail and non-tail self-calls the     *)
(* block scan counted.                                                     *)
(***************************************************************************)
C3_RecursiveIffSelfCalls ==
    Analysed =>
      \A j \in 1..Len(results) :
        /\ results[j].is_recursive <=> (results[j].total_self_calls > 0)
        /\ results[j].total_self_calls =
             blocks[j].self_calls_in_tail + blocks[j].self_calls_non_tail

\* A function found recursive through non-tail self-calls alone.
C3_Witness ==
    /\ Analysed
    /\ \E j \in 1..Len(results) :
         /\ results[j].is_recursive
         /\ blocks[j].self_calls_in_tail = 0
         /\ results[j].total_self_calls = 2

(***************************************************************************)
(* Vocabulary of the rewrite.                                              *)
(***************************************************************************)
\* The argument expressions of a call in order: the positional ones, then
\* (all set) the values of the keyword ones.
ArgumentExprs(call, all) ==
    IF all
    THEN call.args \o [j \in 1..Len(call.keywords) |-> call.keywords[j].value]
    ELSE call.args

\* The multiple assignment of values to all the parameters, in order.
Rebinding(params, values) ==
    Assign(TupleNode([j \in 1..Len(params) |-> NameStore(params[j])], "Store"),
           TupleNode(values, "Load"))

RECURSIVE Rewritten(_, _, _, _, _), Kept(_, _, _, _, _)
\* new is old with each Return of a direct self-call replaced by the
\* rebinding and a continue, in that order, and nothing else touched.
Rewritten(old, new, fname, params, all) ==
    IF old = <<>> THEN new = <<>>
    ELSE LET s == Head(old) IN
         IF s.k = "Return" /\ CallsName(s.value, fname)
         THEN /\ Len(new) >= 2
              /\ new[1] = Rebinding(params, ArgumentExprs(s.value, all))
              /\ new[2] = Continue
              /\ Rewritten(Tail(old), SubSeq(new, 3, Len(new)), fname, params, all)
         ELSE /\ Len(new) >= 1
              /\ Kept(s, new[1], fname, params, all)
              /\ Rewritten(Tail(old), Tail(new), fname, params, all)

\* t is the statement s, the statement lists it holds rewritten.
Kept(s, t, fname, params, all) ==
    CASE s.k \in CompoundKinds ->
           /\ t.k = s.k
           /\ [t EXCEPT !.body = s.body, !.orelse = s.orelse] = s
           /\ Rewritten(s.body, t.body, fname, params, all)
           /\ Rewritten(s.orelse, t.orelse, fname, params, all)
      [] s.k = "FunctionDef" ->
           /\ t.k = s.k
           /\ [t EXCEPT !.body = s.body] = s
           /\ Rewritten(s.body, t.body, fname, params, all)
      [] OTHER -> t = s

\* new is orig with its body turned into one `while True:` around the
\* rewritten statements, the rest of the definition as it was.
LoopAround(orig, new, all) ==
    /\ new.k = "FunctionDef"
    /\ new.name = orig.name
    /\ new.params = orig.params
    /\ new.defaults = orig.defaults
    /\ Len(new.body) = 1
    /\ new.body[1].k = "While"
    /\ new.body[1].test = ConstTrue
    /\ new.body[1].orelse = <<>>
    /\ Rewritten(orig.body, new.body[1].body, orig.name, orig.params, all)

\* The functions the loop of analyze_and_transform has gone through.
Processed == 1..Len(info)

(***************************************************************************)
(* C4.  fact(n, acc=1) of the example unit is certified tail-recursive;    *)
(* the tool rewrites it to `while True: if n <= 1: return acc;             *)
(* (n, acc) = (n - 1, acc * n); continue`; for every argument list over    *)
(* 0..MaxArg the loop and the recursion return the same value, and         *)
(* fact(5, 1) is 120 for both.                                             *)
(***************************************************************************)
C4_FactLoopEqualsRecursion ==
    /\ Analysed => results[1].name = "fact" /\ results[1].is_tail_recursive
    /\ pc = "done" => info[1].transformed /\ new_tree[1] = FactLoop
    /\ (run.k = "ran" /\ run.j = 1) =>
          /\ run.orig.k = "value"
          /\ run.new = run.orig
          /\ run.args = <<5, 1>> => run.new = Ok(IntV(120))

C4_Witness ==
    /\ run.k = "ran" /\ run.j = 1 /\ run.args = <<5, 1>>
    /\ new_tree[1] = FactLoop
    /\ run.orig = Ok(IntV(120))
    /\ run.new = Ok(IntV(120))

(***************************************************************************)
(* C5.  The rebinding is simultaneous: the assignment that replaces        *)
(* `return f(a1..an)` gives each parameter the value its argument has      *)
(* under the parameter values held before the assignment.  fib(n, a=0,     *)
(* b=1) of the example unit is certified, its loop returns what the        *)
(* recursion returns for every argument list over 0..MaxArg, and           *)
(* fib(10, 0, 1) is 55, which rebinding one parameter after the other      *)
(* does not return.                                                        *)
(***************************************************************************)
\* The local variables of a call with all arguments given.
ParamEnv(fdef, args) ==
    [x \in {fdef.params[j] : j \in 1..Len(args)} |->
        IntV(args[CHOOSE j \in 1..Len(args) : fdef.params[j] = x])]

\* In the function at j, whose last statement is the tail call, the
\* statement that replaced it binds every parameter to its argument's value
\* in the environment of before.
RebindsAtOnce(j, args) ==
    LET orig == original_tree[j]
        p == Len(orig.body)
        call == orig.body[p].value
        env == ParamEnv(orig, args)
        step == ExecStmt(new_tree[j].body[1].body[p], env, new_tree, Fuel)
    IN  /\ step.k = "fall"
        /\ \A m \in 1..Len(orig.params) :
             step.env[orig.params[m]] = Eval(call.args[m], env, new_tree, Fuel).val

\* fib with its tail call rebinding n, then a, then b.
FibSequential ==
    [Fib EXCEPT !.body =
        <<Compound("While", ConstTrue,
                   SubSeq(Fib.body, 1, 2)
                   \o visit_ReturnSequential(Fib.body[3], "fib", Fib.params),
                   <<>>)>>]

\* C5: simultaneous rebinding, fib certified and rewritten to the loop of the
\* example, loop = recursion on 0..MaxArg, fib(10, 0, 1) = 55 and not so
\* when the parameters are rebound one after the other.
C5_RebindingIsSimultaneous ==
    /\ Analysed => results[3].name = "fib" /\ results[3].is_tail_recursive
    /\ pc = "done" => info[3].transformed /\ new_tree[3] = FibLoop
    /\ (run.k = "ran" /\ run.j \in {1, 3}
        /\ Len(run.args) = Len(original_tree[run.j].params)) =>
          RebindsAtOnce(run.j, run.args)
    /\ (run.k = "ran" /\ run.j = 3) =>
          /\ run.orig.k = "value"
          /\ run.new = run.orig
          /\ run.args = <<10, 0, 1>> =>
               /\ run.new = Ok(IntV(55))
               /\ CallFunction(FibSequential, IntArgs(run.args), <<>>,
                               <<FibSequential>>, Fuel) # run.orig

C5_Witness ==
    /\ run.k = "ran" /\ run.j = 3 /\ run.args = <<10, 0, 1>>
    /\ new_tree[3].body[1].body[3] = FibRebinding
    /\ run.orig = Ok(IntV(55))
    /\ run.new = Ok(IntV(55))
    /\ CallFunction(FibSequential, IntArgs(run.args), <<>>, <<FibSequential>>,
                    Fuel) = Ok(IntV(512))

(***************************************************************************)
(* C6.  Each scanned Return whose expression holds a self-call without     *)
(* being one adds exactly one non-tail self-call and one diagnostic about  *)
(* the return expression, and makes ok false; the function is then         *)
(* recursive, not tail-recursive, and analyze_and_transform leaves it as   *)
(* it is and reports it as not transformed.                                *)
(***************************************************************************)
C6_BuriedSelfCallIsNonTail ==
    Analysed =>
      \A j \in 1..Len(results) :
        LET nb == BuriedReturns(Fn(j))
            cites(r) == r = ReasonReturnExpr
        IN  /\ blocks[j].self_calls_non_tail =
                 nb + SumCalls(Reachable(Fn(j).body), Fn(j).name)
            /\ CountIn(blocks[j].reasons, cites) = nb
            /\ nb > 0 =>
                 /\ ~blocks[j].ok
                 /\ results[j].is_recursive
                 /\ ~results[j].is_tail_recursive
                 /\ CountIn(results[j].reasons, cites) = nb
                 /\ j \in Processed =>
                      /\ ~info[j].transformed
                      /\ new_tree[j] = Fn(j)

C6_Witness ==
    /\ pc = "done"
    /\ source = <<FactNonTail>>
    /\ blocks[1].self_calls_non_tail = 1
    /\ blocks[1].reasons = <<ReasonReturnExpr>>
    /\ results[1].is_recursive
    /\ ~results[1].is_tail_recursive
    /\ info = <<[name |-> "fact_non_tail", transformed |-> FALSE]>>
    /\ new_tree = source

(***************************************************************************)
(* C7.  analyze_and_transform rewrites a function, and reports it as       *)
(* transformed, exactly when analyze() finds it is_tail_recursive.  The    *)
(* loop asks tail_transform.is_tail_recursive instead, which accepts       *)
(* `if n <= 1: return f(n - 1, acc * n)` with no other statement and       *)
(* refuses `return f(f(n - 1, acc), acc)`: the statement fails.            *)
(***************************************************************************)
C7_RewriteIffCertified ==
    \A j \in Processed :
        /\ info[j].transformed = results[j].is_tail_recursive
        /\ (new_tree[j] # Fn(j)) = results[j].is_tail_recursive

(***************************************************************************)
(* C8.  transform_tail_recursion called on a function that analyze() does  *)
(* not find is_tail_recursive ends in an error and returns no function.    *)
(* The function looks at no verdict and returns the loop: the statement    *)
(* fails.                                                                  *)
(***************************************************************************)
C8_UncertifiedRewriteFails ==
    (rw.k # "idle" /\ ~results[rw.j].is_tail_recursive) => rw.k = "raised"

(***************************************************************************)
(* C9.  In what the rewriter returns, each Return of a direct self-call    *)
(* is replaced by the assignment of the call's argument expressions, in    *)
(* order, to all the parameters, in order, followed by a continue; every   *)
(* other statement is kept as it is, in place.  For                        *)
(* `return f(n - 1, acc=acc * n)` the assignment holds `n - 1` alone: the  *)
(* statement fails.                                                        *)
(***************************************************************************)
C9_ReturnsReplacedRestKept ==
    /\ rw.k = "returned" => LoopAround(rw.arg, rw.out, TRUE)
    /\ \A j \in Processed :
         info[j].transformed /\ pc # "crashed" =>
            LoopAround(Fn(j), new_tree[j], TRUE)

(***************************************************************************)
(* C10.  After the rewriter has run, the body of the function is one       *)
(* `while True:` without else whose body is the rewritten statements, and  *)
(* the name, the parameters and their defaults are as before.              *)
(***************************************************************************)
C10_BodyIsOneLoop ==
    /\ rw.k = "returned" =>
         /\ LoopAround(rw.arg, rw.out, FALSE)
         /\ [rw.out EXCEPT !.body = rw.arg.body] = rw.arg
    /\ \A j \in Processed :
         info[j].transformed /\ pc # "crashed" =>
            /\ LoopAround(Fn(j), new_tree[j], FALSE)
            /\ [new_tree[j] EXCEPT !.body = Fn(j).body] = Fn(j)

C10_Witness ==
    /\ pc = "done"
    /\ source = <<Fib>>
    /\ info[1].transformed
    /\ Len(new_tree[1].body) = 1
    /\ new_tree[1].body[1].k = "While"
    /\ Len(new_tree[1].body[1].body) = 4
    /\ new_tree[1].params = <<"n", "a", "b">>
    /\ new_tree[1].defaults = <<ConstInt(0), ConstInt(1)>>

(***************************************************************************)
(* C11.  Idempotence: for every function analyze() finds                   *)
(* is_tail_recursive, what transform_tail_recursion returns holds no       *)
(* self-call, and analyze() on it finds is_recursive false and             *)
(* total_self_calls 0.  For `return f(f(n - 1, acc), acc)`, certified by   *)
(* the analyzer, the rebinding keeps the inner f(n - 1, acc): the          *)
(* statement fails.                                                        *)
(***************************************************************************)
C11_RewrittenIsNotRecursive ==
    (rw.k = "returned" /\ results[rw.j].is_tail_recursive) =>
        /\ \A c \in 1..Len(Walk(rw.out)) :
              ~CallsName(Walk(rw.out)[c], rw.out.name)
        /\ ~analyze(rw.out).is_recursive
        /\ analyze(rw.out).total_self_calls = 0

(***************************************************************************)
(* Units of several definitions: functions of the same name with           *)
(* different bodies, functions of other names, and a statement that is     *)
(* not a definition.                                                       *)
(***************************************************************************)
FTail ==
    FunctionDef("f", <<"n", "acc">>, <<ConstInt(1)>>,
                <<If(NLeq1, <<RBase>>, <<>>), RTail>>)

FTailElse ==
    FunctionDef("f", <<"n", "acc">>, <<ConstInt(1)>>,
                <<If(NLeq1, <<RBase>>, <<RTail>>)>>)

FPlain == FunctionDef("f", <<"n", "acc">>, <<ConstInt(1)>>, <<RBase>>)

FNonTail ==
    FunctionDef("f", <<"n", "acc">>, <<ConstInt(1)>>,
                <<If(NLeq1, <<RBase>>, <<>>), RNonTail>>)

\* A module-level statement: limit = 1
TopStmt == Assign(NameStore("limit"), ConstInt(1))

UnitItems == {Fact, FactNonTail, Fib, FTail, FTailElse, FPlain, FNonTail, TopStmt}

MaxUnitLen == 3

ManyUnits == SeqsUpTo(UnitItems, MaxUnitLen)

InitUnits == InitWith(ManyUnits)

SpecUnits == InitUnits /\ [][Next]_vars

\* analyze_and_transform is in or past its loop.
InLoop == pc \in {"loop", "done", "crashed"}

(***************************************************************************)
(* C12.  In analyze_and_transform the tree the original texts are taken    *)
(* from is not the tree that is rewritten: from the parse on, every node   *)
(* of original_tree is as the parse gave it, whatever the rewriting does   *)
(* to new_tree, and each reported original text is the text of a           *)
(* definition of that name as the source holds it.                         *)
(***************************************************************************)
C12_OriginalTreeIsNotRewritten ==
    InLoop =>
      /\ original_tree = source
      /\ \A m \in 1..Len(sections) :
           \E p \in 1..Len(source) :
              /\ IsDefOf(source[p], sections[m].name)
              /\ sections[m].original_src = get_source_segment(source[p])

\* A unit of three definitions, two of them rewritten, one not.
C12_Witness ==
    /\ pc = "done"
    /\ source = <<FTail, FNonTail, Fib>>
    /\ Len(sections) = 2
    /\ new_tree[1] # source[1]
    /\ new_tree[3] # source[3]
    /\ original_tree = source
    /\ sections[1].original_src = get_source_segment(FTail)
    /\ sections[2].original_src = get_source_segment(Fib)

\* The names of the top-level function definitions of a module body.
DefNames(body) == [j \in 1..Len(TopFuncs(body)) |-> TopFuncs(body)[j].name]

(***************************************************************************)
(* C13.  When analyze_and_transform has returned, info holds one entry     *)
(* per top-level function definition of the source, in the order of the    *)
(* definitions; the unit returned is the printing of a module that holds   *)
(* every top-level function in the order of the source, and each function  *)
(* reported as not transformed is there as the source defines it (the     *)
(* same tree: the printer chooses the formatting).                         *)
(***************************************************************************)
C13_OneEntryPerFunctionInOrder ==
    pc = "done" =>
      LET unit == transformed_source.unparsed_module
      IN  /\ Len(info) = Len(TopFuncs(source))
          /\ [j \in 1..Len(info) |-> info[j].name] = DefNames(source)
          /\ transformed_source = unparse_module(new_tree)
          /\ DefNames(unit) = DefNames(source)
          /\ \A j \in 1..Len(TopFuncs(source)) :
                ~info[j].transformed => TopFuncs(unit)[j] = Fn(j)

\* A statement, a function left alone and a function rewritten, in a row.
C13_Witness ==
    /\ pc = "done"
    /\ source = <<TopStmt, FNonTail, FTail>>
    /\ info = <<[name |-> "f", transformed |-> FALSE],
                [name |-> "f", transformed |-> TRUE]>>
    /\ transformed_source.unparsed_module[2] = FNonTail
    /\ transformed_source.unparsed_module[3] = transform_tail_recursion(FTail)

\* The positions in info of the functions reported as transformed.
TransformedAt ==
    LET hit(j) == info[j].transformed
    IN  SelectSeq([j \in 1..Len(info) |-> j], hit)

\* How many of the first j top-level definitions bear the name of the j-th.
OccurrenceOf(j) ==
    LET same(fn) == fn.name = Fn(j).name
    IN  Len(SelectSeq(SubSeq(TopFuncs(source), 1, j), same))

(***************************************************************************)
(* C14.  With several top-level definitions of one name, the k-th          *)
(* occurrence the loop meets is paired with the k-th definition of that    *)
(* name in original_tree: the original text reported for a transformed     *)
(* function is the text of that very occurrence, and the index used in     *)
(* the list of originals is within the list (no IndexError).               *)
(***************************************************************************)
C14_OccurrencePairedWithItsOriginal ==
    InLoop =>
      /\ pc # "crashed"
      /\ Len(sections) = Len(TransformedAt)
      /\ \A m \in 1..Len(sections) :
           LET j == TransformedAt[m]
           IN  /\ sections[m].name = Fn(j).name
               /\ OccurrenceOf(j) <= Len(OriginalFuncsByName(Fn(j).name))
               /\ OriginalFuncsByName(Fn(j).name)[OccurrenceOf(j)] = Fn(j)
               /\ sections[m].original_src = get_source_segment(Fn(j))
      /\ (pc = "loop" /\ i <= Len(new_tree) /\ IsFunctionDef(new_tree[i])) =>
            seen_count[new_tree[i].name]
               < Len(OriginalFuncsByName(new_tree[i].name))

\* Two transformed definitions of the name f with different bodies, a third
\* between them.
C14_Witness ==
    /\ pc = "done"
    /\ source = <<FTail, FNonTail, FTailElse>>
    /\ seen_count["f"] = 3
    /\ Len(sections) = 2
    /\ sections[1].original_src = get_source_segment(FTail)
    /\ sections[2].original_src = get_source_segment(FTailElse)
    /\ sections[1].original_src # sections[2].original_src

\* A call of the function's own bare name somewhere in its body.
BodyHoldsSelfCall(func) ==
    \E s \in 1..Len(func.body) :
       \E c \in 1..Len(Walk(func.body[s])) :
          CallsName(Walk(func.body[s])[c], func.name)

(***************************************************************************)
(* C15.  For every function whose body holds no self-call, analyze()       *)
(* returns is_recursive false, is_tail_recursive false and                 *)
(* total_self_calls 0.                                                     *)
(***************************************************************************)
C15_NoSelfCallIsNotRecursive ==
    Analysed =>
      \A j \in 1..Len(results) :
        ~BodyHoldsSelfCall(Fn(j)) =>
           /\ ~results[j].is_recursive
           /\ ~results[j].is_tail_recursive
           /\ results[j].total_self_calls = 0

\* A function that calls a method named like itself, and nothing else.
C15_Witness ==
    /\ Analysed
    /\ Fn(1).name = "f"
    /\ Fn(1).body = <<SAssign, Return(EAttr)>>
    /\ ~BodyHoldsSelfCall(Fn(1))
    /\ ~results[1].is_recursive
    /\ ~results[1].is_tail_recursive
    /\ results[1].total_self_calls = 0

\* A statement sequence that ends with the Return of a direct self-call.
ReturnsSelfCall(stmts, fname) ==
    /\ stmts # <<>>
    /\ stmts[Len(stmts)].k = "Return"
    /\ CallsName(stmts[Len(stmts)].value, fname)

\* An If of which one branch returns a self-call and the other falls
\* through: no path of it is closed by a Return.
OneSidedIf(s, fname) ==
    /\ s.k = "If"
    /\ \/ ReturnsSelfCall(s.body, fname) /\ ~Terminal(s.orelse)
       \/ ReturnsSelfCall(s.orelse, fname) /\ ~Terminal(s.body)

\* The body of the function ends with a one-sided If.
EndsOneSided(func) ==
    OneSidedIf(func.body[Len(func.body)], func.name)

\* The statements of the body before its last.
BeforeLast(func) == SubSeq(func.body, 1, Len(func.body) - 1)

(***************************************************************************)
(* C16.  For a function whose statement sequence ends with an If of which  *)
(* only one branch returns a self-call while the other falls through, and  *)
(* no statement before that If closes the sequence (a Return, or an If     *)
(* whose two branches always return), analyze() finds always_returns       *)
(* false and is_tail_recursive false.                                      *)
(***************************************************************************)
C16_OneSidedIfReached ==
    Analysed =>
      \A j \in 1..Len(results) :
        (EndsOneSided(Fn(j)) /\ ~Terminal(BeforeLast(Fn(j)))) =>
           /\ ~blocks[j].always_returns
           /\ ~results[j].is_tail_recursive

\* C16 as stated, whatever precedes the If: it fails for
\* `if n <= 1: return acc / else: return f(n - 1, acc * n)` followed by
\* `if n <= 1: return f(n - 1, acc * n)`, where the scan stops at the first
\* If, every path returns and the function is tail-recursive.
C16_OneSidedIfLast ==
    Analysed =>
      \A j \in 1..Len(results) :
        EndsOneSided(Fn(j)) =>
           /\ ~blocks[j].always_returns
           /\ ~results[j].is_tail_recursive

\* The one-sided If alone, and after a statement that does not return.
C16_Witness ==
    /\ Analysed
    /\ Fn(1).body \in {<<If(NLeq1, <<RTail>>, <<>>)>>,
                       <<SAssign, If(NLeq1, <<SAssign>>, <<RTail>>)>>}
    /\ EndsOneSided(Fn(1))
    /\ results[1].is_recursive
    /\ blocks[1].ok
    /\ blocks[1].self_calls_in_tail = 1
    /\ ~blocks[1].always_returns
    /\ ~results[1].is_tail_recursive

\* The diagnostics analyze() and the block scan can give for a function.
Diagnostics(fname) ==
    {ReasonReturnExpr, ReasonNonTail, ReasonNoReturn, ReasonNotRecursive}
    \cup {ReasonStructure(kind) : kind \in LoopKinds}
    \cup {ReasonGeneric(fname, kind) :
             kind \in {"Assign", "Expr", "FunctionDef", "Continue"}}

(***************************************************************************)
(* C17.  A negative outcome of the analysis is a value: for every          *)
(* top-level function analyze() returns a verdict (name, is_recursive,     *)
(* is_tail_recursive, reasons, total_self_calls), there is no outcome in   *)
(* which it raises, and whenever is_tail_recursive is false the reasons    *)
(* hold at least one diagnostic.                                           *)
(***************************************************************************)
C17_NegativeVerdictHasReason ==
    Analysed =>
      /\ Len(results) = Len(TopFuncs(source))
      /\ \A j \in 1..Len(results) :
           /\ DOMAIN results[j] = {"name", "is_recursive", "is_tail_recursive",
                                   "reasons", "total_self_calls"}
           /\ results[j].name = Fn(j).name
           /\ results[j].is_recursive \in BOOLEAN
           /\ results[j].is_tail_recursive \in BOOLEAN
           /\ \A r \in 1..Len(results[j].reasons) :
                 results[j].reasons[r] \in Diagnostics(Fn(j).name)
           /\ ~results[j].is_tail_recursive => Len(results[j].reasons) >= 1

\* A recursive function refused for the one reason that a path does not
\* return: the only diagnostic is the one analyze() adds itself.
C17_Witness ==
    /\ Analysed
    /\ Fn(1).body = <<If(NLeq1, <<RTail>>, <<>>)>>
    /\ results[1].is_recursive
    /\ ~results[1].is_tail_recursive
    /\ blocks[1].reasons = <<>>
    /\ results[1].reasons = <<ReasonNoReturn>>

\* analyze_and_transform has returned the unit and a report on each function.
Completed ==
    /\ pc = "done"
    /\ Len(info) = Len(TopFuncs(source))
    /\ Len(transformed_source.unparsed_module) = Len(source)

(***************************************************************************)
(* C18.  No function makes analyze_and_transform give up on a unit: the    *)
(* loop is never left through an exception; each of its steps either      *)
(* moves on to the next top-level statement, of which there are as many    *)
(* as the source has, or is the final printing once all are done; and      *)
(* what is returned holds the whole rewritten unit and a report entry for  *)
(* each top-level function, those that are not tail-recursive or not       *)
(* recursive included.                                                     *)
(***************************************************************************)
C18_UnitIsNeverAbandoned ==
    /\ [](pc # "crashed")
    /\ [](pc = "loop" => Len(new_tree) = Len(source) /\ i <= Len(new_tree) + 1)
    /\ [][pc = "loop" => \/ pc' = "loop" /\ i' = i + 1
                         \/ pc' = "done" /\ i > Len(new_tree)]_vars
    /\ [](pc = "done" => Completed)

\* A unit returned whole although two of its three functions are refused,
\* one for a non-tail call and one for not being recursive.
C18_Witness ==
    /\ Completed
    /\ source = <<FNonTail, FPlain, FTail>>
    /\ results[1].is_recursive /\ ~results[1].is_tail_recursive
    /\ ~results[2].is_recursive
    /\ info = <<[name |-> "f", transformed |-> FALSE],
                [name |-> "f", transformed |-> FALSE],
                [name |-> "f", transformed |-> TRUE]>>

\* The positions of the Returns among the statements of a sequence.
ReturnsAt(stmts) == {p \in 1..Len(stmts) : stmts[p].k = "Return"}

\* The sequence up to and including its first Return.
UpToFirstReturn(stmts) ==
    SubSeq(stmts, 1, CHOOSE p \in ReturnsAt(stmts) :
                        \A q \in ReturnsAt(stmts) : p <= q)

(***************************************************************************)
(* C19.  In _check_block a Return ends the scan of its statement           *)
(* sequence: for a body that holds a Return, the tail count, the non-tail  *)
(* count, ok and the reasons are those of the body cut after its first     *)
(* Return, whatever statements follow it, and always_returns is true; the  *)
(* same holds of the then-branch of an If of the body.                     *)
(***************************************************************************)
C19_ReturnEndsTheScan ==
    Analysed =>
      \A j \in 1..Len(results) :
        /\ ReturnsAt(Fn(j).body) # {} =>
             /\ blocks[j] = check_block(UpToFirstReturn(Fn(j).body), Fn(j).name)
             /\ blocks[j].always_returns
        /\ \A s \in 1..Len(Fn(j).body) :
             (Fn(j).body[s].k = "If" /\ ReturnsAt(Fn(j).body[s].body) # {}) =>
                LET branch == Fn(j).body[s].body
                IN  /\ check_block(branch, Fn(j).name) =
                         check_block(UpToFirstReturn(branch), Fn(j).name)
                    /\ check_block(branch, Fn(j).name).always_returns

\* `return f(n - 1, acc * n)` followed by the statement `f(n - 1, acc)`:
\* the second self-call is not counted and the function is certified.
C19_Witness ==
    /\ Analysed
    /\ Fn(1).body = <<RTail, SCall>>
    /\ blocks[1] = BlockCheck(TRUE, TRUE, 1, 0, <<>>)
    /\ check_block(<<SCall>>, "f").self_calls_non_tail = 1
    /\ results[1].is_tail_recursive

\* The positions of the statements that close a sequence.
TerminatorsAt(stmts) == {p \in 1..Len(stmts) : Terminator(stmts[p])}

FirstTerminator(stmts) ==
    CHOOSE p \in TerminatorsAt(stmts) : \A q \in TerminatorsAt(stmts) : p <= q

\* The first statement to close the sequence is an If.
ClosedByIf(stmts) ==
    /\ TerminatorsAt(stmts) # {}
    /\ stmts[FirstTerminator(stmts)].k = "If"

\* What a scan that stood at before gives once it has met an If whose
\* branches scan as then_res and else_res, both always returning.
ClosedWith(before, then_res, else_res) ==
    BlockCheck(before.ok /\ then_res.ok /\ else_res.ok,
               TRUE,
               before.self_calls_in_tail + then_res.self_calls_in_tail
                   + else_res.self_calls_in_tail,
               before.self_calls_non_tail + then_res.self_calls_non_tail
                   + else_res.self_calls_non_tail,
               before.reasons \o then_res.reasons \o else_res.reasons)

(***************************************************************************)
(* C20.  An If whose then-branch and else-branch both always return        *)
(* closes the block that holds it: the block's always_returns is true,     *)
(* the statements after the If add nothing to the counts, to ok or to the  *)
(* reasons, and the If itself adds the sum of the counts of its two        *)
(* branches, their reasons one after the other, and the conjunction of     *)
(* their ok.                                                               *)
(***************************************************************************)
C20_ExhaustiveIfClosesTheBlock ==
    Analysed =>
      \A j \in 1..Len(results) :
        ClosedByIf(Fn(j).body) =>
           LET p == FirstTerminator(Fn(j).body)
               s == Fn(j).body[p]
               before == check_block(SubSeq(Fn(j).body, 1, p - 1), Fn(j).name)
               then_res == check_block(s.body, Fn(j).name)
               else_res == check_block(s.orelse, Fn(j).name)
           IN  /\ then_res.always_returns
               /\ else_res.always_returns
               /\ blocks[j].always_returns
               /\ blocks[j] = ClosedWith(before, then_res, else_res)

\* `if n <= 1: return n * f(n - 1, acc) / else: return f(n - 1, acc * n)`
\* followed by the statement `f(n - 1, acc)`: one non-tail call and its
\* diagnostic from the then-branch, one tail call from the else-branch,
\* nothing from the statement after the If.
C20_Witness ==
    /\ Analysed
    /\ Fn(1).body = <<If(NLeq1, <<RNonTail>>, <<RTail>>), SCall>>
    /\ blocks[1] = BlockCheck(FALSE, TRUE, 1, 1, <<ReasonReturnExpr>>)
    /\ check_block(<<SCall>>, "f").self_calls_non_tail = 1

(***************************************************************************)
(* The analyzer alone: analyze_source on the input units and on units      *)
(* with statements of more shapes: two self-calls in one assignment, a     *)
(* loop inside an If, a loop with a self-call in its test and one in a     *)
(* Return of its body.                                                     *)
(***************************************************************************)
SAssignTwo == Assign(NameStore("acc"), ENested)

IfWithLoop ==
    If(NLeq1, <<Compound("While", NLeq1, <<RTail>>, <<>>)>>, <<RBase>>)

LoopOnSelfTest == Compound("While", SelfTest, <<RTail>>, <<>>)

AnalysisStmts == Stmts \cup {SAssignTwo, IfWithLoop, LoopOnSelfTest}

AnalysisFuncs ==
    {FunctionDef("f", <<"n", "acc">>, <<ConstInt(1)>>, b) :
        b \in SeqsUpTo(AnalysisStmts, MaxBodyLen)}
    \cup {Fact, FactNonTail, Fib}

InitAnalyze == InitWith({<<fn>> : fn \in AnalysisFuncs})

SpecAnalyze == InitAnalyze /\ [][AnalyzeSource]_vars

RECURSIVE SeqsIn(_)
\* A statement sequence and the branches of its Ifs, at any depth.
SeqsIn(stmts) ==
    {stmts} \cup UNION {SeqsIn(stmts[p].body) \cup SeqsIn(stmts[p].orelse) :
                          p \in {q \in 1..Len(stmts) : stmts[q].k = "If"}}

\* What the scan gave for a sequence of the j-th function: for its body the
\* BlockCheck analyze() held, for a branch what _check_block returns.
Scan(j, stmts) ==
    IF stmts = Fn(j).body THEN blocks[j] ELSE check_block(stmts, Fn(j).name)

\* The number of self-call nodes in the subtree of a statement.
SelfCallNodes(s, fname) == Len(SelfCallsUnder(s, "Block", fname))

\* The statements of a sequence from position p on.
From(stmts, p) == SubSeq(stmts, p, Len(stmts))

\* The result of a scan that gave first on the statements it went through
\* and rest on those that follow them.
Joined(first, rest) ==
    BlockCheck(first.ok /\ rest.ok,
               rest.always_returns,
               first.self_calls_in_tail + rest.self_calls_in_tail,
               first.self_calls_non_tail + rest.self_calls_non_tail,
               first.reasons \o rest.reasons)

\* Position p of the sequence holds an If that the scan reaches and whose
\* branches do not both always return.
OpenIfAt(stmts, p) ==
    /\ stmts[p].k = "If"
    /\ ~Terminator(stmts[p])
    /\ TerminatorsAt(SubSeq(stmts, 1, p - 1)) = {}

(***************************************************************************)
(* C21.  An If whose branches do not both always return, an If without     *)
(* else included, does not end the scan and does not set always_returns:   *)
(* the block's result is that of the statements up to the If joined with   *)
(* that of the statements after it, and always_returns holds exactly when  *)
(* a Return or an If with two returning branches follows in the sequence.  *)
(***************************************************************************)
C21_OpenIfLetsTheScanGoOn ==
    Analysed =>
      \A j \in 1..Len(results) :
        \A p \in 1..Len(Fn(j).body) :
          OpenIfAt(Fn(j).body, p) =>
             LET upto == check_block(SubSeq(Fn(j).body, 1, p), Fn(j).name)
                 rest == check_block(From(Fn(j).body, p + 1), Fn(j).name)
             IN  /\ ~upto.always_returns
                 /\ blocks[j] = Joined(upto, rest)
                 /\ blocks[j].always_returns =
                       (TerminatorsAt(From(Fn(j).body, p + 1)) # {})

\* `if n <= 1: return acc` without else, then `return f(n - 1, acc * n)`:
\* the Return after the If is scanned and closes the block.
C21_Witness ==
    /\ Analysed
    /\ Fn(1).body = <<If(NLeq1, <<RBase>>, <<>>), RTail>>
    /\ ~check_block(<<If(NLeq1, <<RBase>>, <<>>)>>, "f").always_returns
    /\ blocks[1] = BlockCheck(TRUE, TRUE, 1, 0, <<>>)
    /\ results[1].is_tail_recursive

\* Position p of the sequence holds a statement the scan reaches.
ScannedAt(stmts, p) == TerminatorsAt(SubSeq(stmts, 1, p - 1)) = {}

\* What a loop, try, with or match statement holding n self-call nodes adds
\* to a scan.
LoopAdds(kind, n) == BlockCheck(n = 0, FALSE, 0, n, <<ReasonStructure(kind)>>)

\* A reached statement of the function is a construct with a self-call.
LoopWithSelfCall(s, fname) ==
    s.k \in LoopKinds /\ SelfCallNodes(s, fname) > 0

(***************************************************************************)
(* C22.  A While, For, Try, With or Match statement that the scan reaches  *)
(* never sets always_returns for the block that holds it, even when its    *)
(* body ends with a Return: always_returns is decided by the statements    *)
(* after it.  Every self-call node inside it, a `return f(...)` of its     *)
(* body included, adds one to the non-tail count and none to the tail      *)
(* count, makes ok false, and the construct is named by a diagnostic; a    *)
(* function with a self-call inside such a construct that the scan         *)
(* reaches is not is_tail_recursive.                                       *)
(***************************************************************************)
C22_ReachedLoopIsConservative ==
    Analysed =>
      \A j \in 1..Len(results) :
        /\ \A stmts \in SeqsIn(Fn(j).body) :
             \A p \in 1..Len(stmts) :
               (stmts[p].k \in LoopKinds /\ ScannedAt(stmts, p)) =>
                  LET n == SelfCallNodes(stmts[p], Fn(j).name)
                      before == check_block(SubSeq(stmts, 1, p - 1), Fn(j).name)
                      rest == check_block(From(stmts, p + 1), Fn(j).name)
                  IN  /\ Scan(j, stmts) =
                            Joined(Joined(before, LoopAdds(stmts[p].k, n)), rest)
                      /\ Scan(j, stmts).always_returns =
                            (TerminatorsAt(From(stmts, p + 1)) # {})
                      /\ n > 0 => ~Scan(j, stmts).ok
        /\ \A r \in 1..Len(Reachable(Fn(j).body)) :
             LoopWithSelfCall(Reachable(Fn(j).body)[r], Fn(j).name) =>
                /\ ~results[j].is_tail_recursive
                /\ \E d \in 1..Len(results[j].reasons) :
                      results[j].reasons[d] =
                         ReasonStructure(Reachable(Fn(j).body)[r].k)

\* C22 as stated, of a construct anywhere in the function: it fails for
\* `return f(n - 1, acc * n)` followed by `while n <= 1: return f(...)`,
\* where the scan stops at the Return and the function is certified.
C22_AnyLoopIsConservative ==
    Analysed =>
      \A j \in 1..Len(results) :
        \A c \in 1..Len(Walk(Fn(j))) :
           LoopWithSelfCall(Walk(Fn(j))[c], Fn(j).name) =>
              ~results[j].is_tail_recursive

\* `while f(n - 1, acc) <= 1: return f(n - 1, acc * n)` and then
\* `return acc`: both self-calls are non-tail, the Return of the loop body
\* closes nothing and the Return after the loop does.
C22_Witness ==
    /\ Analysed
    /\ Fn(1).body = <<LoopOnSelfTest, RBase>>
    /\ blocks[1] = BlockCheck(FALSE, TRUE, 0, 2, <<ReasonStructure("While")>>)
    /\ results[1].is_recursive
    /\ ~results[1].is_tail_recursive

\* A statement that is neither a Return, an If nor a loop, try, with or
\* match construct.
GenericStmt(s) == s.k \notin ({"Return", "If"} \cup LoopKinds)

\* What a generic statement holding n self-call nodes adds to a scan.
GenericAdds(fname, kind, n) ==
    BlockCheck(n = 0, FALSE, 0, n,
               IF n > 0 THEN <<ReasonGeneric(fname, kind)>> ELSE <<>>)

(***************************************************************************)
(* C23.  A statement that is neither a Return, an If nor a loop, try,      *)
(* with or match construct (an assignment, a bare expression, a nested     *)
(* def) and that the scan meets adds one non-tail self-call per self-call  *)
(* node of its subtree and no tail call; when it holds one, ok becomes     *)
(* false and one diagnostic naming the statement is recorded; it never     *)
(* sets always_returns, which the statements after it decide.              *)
(***************************************************************************)
C23_GenericStatementCountsNonTail ==
    Analysed =>
      \A j \in 1..Len(results) :
        \A stmts \in SeqsIn(Fn(j).body) :
          \A p \in 1..Len(stmts) :
            (GenericStmt(stmts[p]) /\ ScannedAt(stmts, p)) =>
               LET n == SelfCallNodes(stmts[p], Fn(j).name)
                   before == check_block(SubSeq(stmts, 1, p - 1), Fn(j).name)
                   rest == check_block(From(stmts, p + 1), Fn(j).name)
               IN  /\ Scan(j, stmts) =
                         Joined(Joined(before,
                                       GenericAdds(Fn(j).name, stmts[p].k, n)),
                                rest)
                   /\ Scan(j, stmts).always_returns =
                         (TerminatorsAt(From(stmts, p + 1)) # {})
                   /\ n > 0 => ~Scan(j, stmts).ok

\* `acc = f(f(n - 1, acc), acc)` then `return f(n - 1, acc * n)`: the two
\* self-call nodes of the assignment are non-tail, with one diagnostic.
C23_Witness ==
    /\ Analysed
    /\ Fn(1).body = <<SAssignTwo, RTail>>
    /\ blocks[1] = BlockCheck(FALSE, TRUE, 1, 2, <<ReasonGeneric("f", "Assign")>>)
    /\ ~results[1].is_tail_recursive

(***************************************************************************)
(* The two call tests of the analyzer put to one node of a function, as    *)
(* _check_block and _analyze_return_expr put them to the nodes they meet.  *)
(***************************************************************************)
ClassifyUnits ==
    {<<FunctionDef("f", <<"n", "acc">>, <<ConstInt(1)>>, <<s>>)>> :
        s \in AnalysisStmts}
    \cup {<<Fact>>, <<FactNonTail>>, <<Fib>>}

InitClassify == InitWith(ClassifyUnits)

\* isinstance(sub, ast.Call) and self._is_self_call(sub.func), and
\* self._contains_self_call(sub), for a node sub of the analysed function.
Classify ==
    /\ cls.k = "idle"
    /\ \E c \in 1..Len(Walk(Fn(1))) :
         LET sub == Walk(Fn(1))[c]
         IN  cls' = [k |-> "classified", node |-> sub, fname |-> Fn(1).name,
                     is_self |-> IsSelfCallNode(sub, Fn(1).name),
                     contains |-> contains_self_call(sub, Fn(1).name)]
    /\ UNCHANGED <<source, pc, results, blocks, original_tree, new_tree, i,
                   seen_count, info, sections, transformed_source, rw, run>>

SpecClassify == InitClassify /\ [][Classify]_vars

RECURSIVE HoldsSelfCall(_, _)
\* The node, or a node below it at whatever depth, calls the bare name.
HoldsSelfCall(node, fname) ==
    \/ CallsName(node, fname)
    \/ \E c \in 1..Len(Children(node)) : HoldsSelfCall(Children(node)[c], fname)

(***************************************************************************)
(* C24.  A node is a self-call exactly when it is a call whose callee is   *)
(* the bare name of the analysed function: a call of a method obj.f, of    *)
(* another name, or a node that is no call, is not one.                    *)
(* _contains_self_call of a subtree is true exactly when the subtree       *)
(* holds such a call at some depth, the arguments of calls included.       *)
(***************************************************************************)
C24_SelfCallIsBareNameCall ==
    cls.k = "classified" =>
       /\ cls.is_self = (/\ cls.node.k = "Call"
                         /\ cls.node.func.k = "Name"
                         /\ cls.node.func.id = cls.fname)
       /\ cls.contains = HoldsSelfCall(cls.node, cls.fname)

\* g(f(n - 1, acc)): a call of another name, not a self-call, that holds
\* one among its arguments.
C24_Witness ==
    /\ cls.k = "classified"
    /\ cls.node = EInOther
    /\ cls.fname = "f"
    /\ ~cls.is_self
    /\ cls.contains

(***************************************************************************)
(* C25.  What transform_tail_recursion returns is a new definition: after  *)
(* the call the node that was passed in still has the statement sequence   *)
(* it had before.  The function assigns func.body on the node it was       *)
(* given and returns that node: the statement fails.                       *)
(***************************************************************************)
C25_InputKeepsItsBody ==
    rw.k = "returned" => rw.node.body = rw.arg.body

(***************************************************************************)
(* Units of one definition each that pass the gate of                      *)
(* analyze_and_transform, run before and after the rewrite.                *)
(***************************************************************************)
NGt1 == Compare(N, ">", ConstInt(1))

\* def f(n, acc=1):
\*     if n > 1:
\*         return f(n - 1, acc * n)
FOneSided ==
    FunctionDef("f", <<"n", "acc">>, <<ConstInt(1)>>,
                <<If(NGt1, <<RTail>>, <<>>)>>)

\* def f(n, acc=1):
\*     if n <= 1:
\*         return acc
\*     return f(n - 1, acc=acc * n)
FKeyword ==
    FunctionDef("f", <<"n", "acc">>, <<ConstInt(1)>>,
                <<If(NLeq1, <<RBase>>, <<>>), Return(EKeyword)>>)

\* def f(n, acc=1):
\*     while n > 1:
\*         return f(n - 1, acc * n)
\*     return acc
FInLoop ==
    FunctionDef("f", <<"n", "acc">>, <<ConstInt(1)>>,
                <<Compound("While", NGt1, <<RTail>>, <<>>), RBase>>)

GateFuncs == {FTail, FTailElse, FNonTail, FOneSided, FKeyword, FInLoop}

InitGate == InitWith({<<fn>> : fn \in GateFuncs})

SpecGate == InitGate /\ [][NextRun]_vars

(***************************************************************************)
(* C26.  For every definition analyze_and_transform rewrites and every     *)
(* argument list on which the call of the original returns (a value, or    *)
(* None at the end of its body), the call of the rewritten definition      *)
(* returns the same.  The gate lets through definitions for which it does  *)
(* not: the statement fails.                                               *)
(***************************************************************************)
C26_RewrittenReturnsTheSame ==
    (run.k = "ran" /\ info[run.j].transformed /\ run.orig.k = "value")
        => run.new = run.orig

\* The multiple assignments to a tuple of names anywhere in a definition.
TupleAssigns(fdef) ==
    LET w == Walk(fdef)
    IN  {s \in {w[k] : k \in 1..Len(w)} :
            s.k = "Assign" /\ s.target.k = "Tuple"}

(***************************************************************************)
(* C27.  In every definition analyze_and_transform rewrites, each          *)
(* generated multiple assignment has as many value expressions as target   *)
(* parameters.  The values are the positional arguments of the call only,  *)
(* so a call passing a keyword argument, or leaving a parameter to its     *)
(* default, gets fewer values than targets: the statement fails.           *)
(***************************************************************************)
C27_OneValuePerParameter ==
    \A j \in Processed :
        info[j].transformed =>
            \A s \in TupleAssigns(new_tree[j]) :
                /\ s.value.k = "Tuple"
                /\ Len(s.target.elts) = Len(original_tree[j].params)
                /\ Len(s.value.elts) = Len(s.target.elts)

\* The nodes of a subtree, as a set.
NodesOf(node) == LET w == Walk(node) IN {w[k] : k \in 1..Len(w)}

\* The loops and definitions nested in the body of the one loop that is
\* the body of a rewritten definition.
InnerLoops(fdef) ==
    UNION {{n \in NodesOf(fdef.body[1].body[m]) :
                n.k \in {"While", "For", "FunctionDef"}} :
           m \in 1..Len(fdef.body[1].body)}

(***************************************************************************)
(* C28.  In every definition analyze_and_transform rewrites, each          *)
(* `continue` is bound to the new outer `while True`: none lies in a loop  *)
(* nested in that loop's body.  The gate only asks that a self-call be     *)
(* the operand of a Return, wherever that Return stands, so a return       *)
(* inside a while statement is replaced and its continue targets that      *)
(* inner loop: the statement fails.                                        *)
(***************************************************************************)
C28_ContinueTargetsTheOuterLoop ==
    \A j \in Processed :
        info[j].transformed =>
            \A n \in InnerLoops(new_tree[j]) : Continue \notin NodesOf(n)

(***************************************************************************)
(* analyze_source on a unit, then transform_tail_recursion on its          *)
(* function.                                                               *)
(***************************************************************************)
NextRewrite == AnalyzeSource \/ RewriteDirect

SpecRewrite == InitAnalyze /\ [][NextRewrite]_vars

RECURSIVE Closes(_)
\* A statement sequence no execution gets to the end of: it holds a Return
\* or a continue, or an If whose two branches are both such sequences.
Closes(stmts) ==
    \E p \in 1..Len(stmts) :
        \/ stmts[p].k \in {"Return", "Continue"}
        \/ stmts[p].k = "If" /\ Closes(stmts[p].body) /\ Closes(stmts[p].orelse)

\* The statement sequences of a definition at any depth that hold a continue.
ContinueBlocks(fdef) ==
    {b \in UNION {{n.body, n.orelse} :
                    n \in {m \in NodesOf(fdef) : m.k \in CompoundKinds}} :
        \E p \in 1..Len(b) : b[p] = Continue}

\* Each continue of the sequence comes right after a rebinding of params.
ContinuesFollowRebinding(b, params) ==
    \A p \in 1..Len(b) :
        b[p] = Continue =>
            /\ p > 1
            /\ b[p - 1].k = "Assign"
            /\ b[p - 1].target = Rebinding(params, <<>>).target

(***************************************************************************)
(* C29.  For a function the Analyzer certifies tail-recursive, the body    *)
(* of the loop transform_tail_recursion builds is never run to its end:    *)
(* every path through it meets a Return or a continue, and each continue   *)
(* is the one generated right after a rebinding of the parameters.         *)
(***************************************************************************)
C29_LoopBodyIsNeverRunToItsEnd ==
    (rw.k = "returned" /\ results[rw.j].is_tail_recursive) =>
        /\ Closes(rw.out.body[1].body)
        /\ \A b \in ContinueBlocks(rw.out) :
              ContinuesFollowRebinding(b, rw.arg.params)

\* A certified function whose closing statement is an If with a tail call
\* in one branch and the base case in the other.
C29_Witness ==
    /\ rw.k = "returned"
    /\ results[rw.j].is_tail_recursive
    /\ rw.arg.body = <<If(NLeq1, <<RBase>>, <<RTail>>)>>
    /\ rw.out.body[1].body =
          <<If(NLeq1, <<RBase>>,
               <<Rebinding(<<"n", "acc">>, ETail.args), Continue>>)>>

(***************************************************************************)
(* C30.  Every BlockCheck _check_block returns, for the body of a function *)
(* and for the branches of its Ifs at any depth, has ok true exactly when  *)
(* its self_calls_non_tail is 0.                                           *)
(***************************************************************************)
C30_OkIffNoNonTailCall ==
    Analysed =>
      \A j \in 1..Len(results) :
        \A stmts \in SeqsIn(Fn(j).body) :
          Scan(j, stmts).ok = (Scan(j, stmts).self_calls_non_tail = 0)

\* `if n <= 1: return n * f(n - 1, acc)` with `else: return f(n - 1, acc * n)`:
\* the then branch is refused with one non-tail call, the else branch is
\* accepted with none, and the body is refused with one.
C30_Witness ==
    /\ Analysed
    /\ Fn(1).body = <<If(NLeq1, <<RNonTail>>, <<RTail>>)>>
    /\ Scan(1, <<RNonTail>>) = BlockCheck(FALSE, TRUE, 0, 1, <<ReasonReturnExpr>>)
    /\ Scan(1, <<RTail>>) = BlockCheck(TRUE, TRUE, 1, 0, <<>>)
    /\ blocks[1] = BlockCheck(FALSE, TRUE, 1, 1, <<ReasonReturnExpr>>)

=============================================================================
